---------------------------- MODULE Spec2Model ----------------------------
(***************************************************************************)
(* Model of the tool-attribution core of vmcp:                             *)
(*   - ToolBasedScanOrchestrator._group_by_tool   (tool_orchestrator.py)   *)
(*   - CallGraphBuilder                           (utils/call_graph.py)    *)
(*   - ToolDetector.detect_tools                  (utils/tool_detector.py) *)
(*   - RuntimeToolDetector                (utils/runtime_tool_detector.py) *)
(*                                                                         *)
(* Paths are sequences of path components; an absolute path starts with    *)
(* the component "/".  A Python dict is a sequence of <<key, value>> pairs *)
(* in insertion order.  The value None is the empty sequence.              *)
(***************************************************************************)
EXTENDS Naturals, Sequences, FiniteSets, TLC

VARIABLES
    pc,                 \* position of the operation in progress
    tools,              \* the MCPTool list (self.tools / build_graphs argument)
    tool_graphs,        \* dict tool name -> set of paths (CallGraphBuilder.tool_graphs,
                        \* the same dict as the orchestrator's self.tool_graphs)
    fs,                 \* repository snapshot: relative path of a file -> its content
    ti,                 \* index of the next tool of build_graphs' loop (line 27)
    walk_lang,          \* which graph builder is walking: "python" or "javascript"
    visited,            \* the visited set of the walk in progress
    stack,              \* call stack of _build_python_graph / _build_javascript_graph
    previous_graphs,    \* the maps earlier calls of build_graphs returned for the
                        \* same files and tools (observation only)
    vulnerabilities,    \* argument of _group_by_tool: list of file_location values
    vi,                 \* index of the next finding of the for loop (line 98)
    tool_vulns,         \* dict bucket key -> list of finding indices
    group_result,       \* value returned by _group_by_tool
    use_runtime_detection, \* ToolDetector.use_runtime_detection
    loop_running,       \* whether asyncio.get_running_loop() finds a loop
    project,            \* what the detectors read from the repository
    entry_point,        \* result of _find_entry_point (None: no entry point)
    child,              \* the server process: "none", "running", "exited" (by
                        \* itself, not waited for), "reaped" (waited for after
                        \* stdin was closed), "killed" (killed at once, waited for)
    pipe,               \* lines the child wrote to stdout that were not read yet
    written,            \* all lines the child wrote so far
    stdout_data,        \* what process.stdout.read returned
    runtime_tools,      \* value returned by RuntimeToolDetector.detect_tools
    di,                 \* index of the next detector of the static loop (line 296)
    trace,              \* what happened during detect_tools (observation only)
    call,               \* the arguments of the reporting function called
    ret,                \* what that function returned
    output_files        \* the files written under the output directory: path -> content

groupVars == <<vulnerabilities, vi, tool_vulns, group_result>>
graphVars == <<fs, ti, walk_lang, visited, stack, previous_graphs>>
utilVars == <<call, ret, output_files>>
detectVars == <<use_runtime_detection, loop_running, project, entry_point, child,
                pipe, written, stdout_data, runtime_tools, di, trace>>

-----------------------------------------------------------------------------
(* Python dict with insertion order                                        *)

None == <<>>

RECURSIVE DictIndex(_, _)
DictIndex(d, k) ==
    IF d = <<>> THEN 0
    ELSE IF d[Len(d)][1] = k /\ DictIndex(SubSeq(d, 1, Len(d) - 1), k) = 0
         THEN Len(d)
         ELSE DictIndex(SubSeq(d, 1, Len(d) - 1), k)

DictHas(d, k) == \E i \in 1..Len(d) : d[i][1] = k

DictGet(d, k) == d[DictIndex(d, k)][2]

\* d[k] = v: an existing key keeps its position, a new key goes last
DictSet(d, k, v) ==
    IF DictHas(d, k)
    THEN [d EXCEPT ![DictIndex(d, k)] = <<k, v>>]
    ELSE Append(d, <<k, v>>)

DictKeys(d) == [i \in 1..Len(d) |-> d[i][1]]

KeySet(d) == {d[i][1] : i \in 1..Len(d)}

\* the dict returned as it is
RemoveEmpty_keep_all(d) == d

\* {k: v for k, v in d.items() if v}: the entries with a non-empty list
RECURSIVE RemoveEmpty(_)
RemoveEmpty(d) ==
    IF d = <<>> THEN <<>>
    ELSE IF Head(d)[2] # <<>>
         THEN <<Head(d)>> \o RemoveEmpty(Tail(d))
         ELSE RemoveEmpty(Tail(d))

-----------------------------------------------------------------------------
(* Paths                                                                   *)

RepoName == "repo"
RepoPath == <<"/", RepoName>>

IsAbsolute(p) == Len(p) > 0 /\ p[1] = "/"

IsUnder(p, root) == Len(p) >= Len(root) /\ SubSeq(p, 1, Len(root)) = root

\* Path.relative_to(root) of a path under root; the root itself gives "."
RelativeTo(p, root) ==
    IF Len(p) = Len(root) THEN <<".">> ELSE SubSeq(p, Len(root) + 1, Len(p))

\* root / p: an absolute right operand replaces the left one
Join(root, p) == IF IsAbsolute(p) THEN p ELSE root \o p

\* Path(p).name
BaseName(p) == IF p = <<>> \/ p = <<".">> \/ p = <<"/">> THEN "" ELSE p[Len(p)]

\* str.replace(f"{repo_path}/", "") on the text of an absolute path that is
\* not under the repository: every "/repo/" is removed, which glues the
\* component before it to the component after it.
RECURSIVE ReplaceRepoPrefix(_, _)
ReplaceRepoPrefix(acc, rest) ==
    IF rest = <<>> THEN acc
    ELSE IF Head(rest) = RepoName /\ Len(rest) >= 2
         THEN ReplaceRepoPrefix(
                  IF acc[Len(acc)] = "/"
                  THEN SubSeq(acc, 1, Len(acc) - 1) \o <<rest[2]>>
                  ELSE [acc EXCEPT ![Len(acc)] = acc[Len(acc)] \o rest[2]],
                  SubSeq(rest, 3, Len(rest)))
         ELSE ReplaceRepoPrefix(Append(acc, Head(rest)), Tail(rest))

-----------------------------------------------------------------------------
(* ToolBasedScanOrchestrator._group_by_tool                                *)

\* dependency_files (lines 91-96)
dependency_files ==
    {"package.json", "package-lock.json", "yarn.lock", "pnpm-lock.yaml",
     "requirements.txt", "setup.py", "pyproject.toml", "Pipfile", "poetry.lock",
     "go.mod", "go.sum", "Cargo.toml", "Cargo.lock",
     "Gemfile", "Gemfile.lock", "composer.json", "composer.lock"}

\* truth value of a file_location: None and the empty string are falsy
Truthy(file_location) == file_location # None /\ file_location # <<"">>

\* lines 104-112: an absolute path is made relative to the repository, and
\* one that is not under it goes through the string replacement
NormalizePath(file_location) ==
    IF IsAbsolute(file_location)
    THEN IF IsUnder(file_location, RepoPath)
         THEN RelativeTo(file_location, RepoPath)
         ELSE ReplaceRepoPrefix(<<"/">>, Tail(file_location))
    ELSE file_location

IsDependencyFile(file_name) == file_name \in dependency_files

\* the last tool, in the dict's iteration order, whose dependency set holds
\* the path
RECURSIVE FirstOwner_last(_, _)
FirstOwner_last(graphs, file_path) ==
    IF graphs = <<>> THEN None
    ELSE IF file_path \in graphs[Len(graphs)][2]
         THEN <<graphs[Len(graphs)][1]>>
         ELSE FirstOwner_last(SubSeq(graphs, 1, Len(graphs) - 1), file_path)

\* lines 123-127: the first tool, in the dict's iteration order, whose
\* dependency set holds the path; None when there is none
RECURSIVE FirstOwner(_, _)
FirstOwner(graphs, file_path) ==
    IF graphs = <<>> THEN None
    ELSE IF file_path \in Head(graphs)[2]
         THEN <<Head(graphs)[1]>>
         ELSE FirstOwner(Tail(graphs), file_path)

\* the routing with the closure lookup placed before the manifest check
BucketOf_closure_first(graphs, file_location) ==
    LET file_path == NormalizePath(file_location)
        owner     == IF Truthy(file_location) THEN FirstOwner(graphs, file_path)
                     ELSE None
    IN  IF owner # None THEN owner[1]
        ELSE IF ~Truthy(file_location) \/ IsDependencyFile(BaseName(file_path))
             THEN "dependencies"
             ELSE "unknown"

\* the routing without lines 130-132
BucketOf_no_default(graphs, file_location) ==
    LET file_path == NormalizePath(file_location)
        owner     == FirstOwner(graphs, file_path)
    IN  IF ~Truthy(file_location) THEN "unknown"
        ELSE IF IsDependencyFile(BaseName(file_path)) THEN "dependencies"
        ELSE IF owner # None THEN owner[1]
        ELSE "unknown"

\* the routing with a path outside the repository taken as no location
BucketOf_outside_absent(graphs, file_location) ==
    LET outside   == IsAbsolute(file_location) /\ ~IsUnder(file_location, RepoPath)
        file_path == NormalizePath(file_location)
        owner     == FirstOwner(graphs, file_path)
    IN  IF ~Truthy(file_location) \/ outside THEN "dependencies"
        ELSE IF IsDependencyFile(BaseName(file_path)) THEN "dependencies"
        ELSE IF owner # None THEN owner[1]
        ELSE "unknown"

\* lines 99-136: the bucket key one finding is appended to
BucketOf(graphs, file_location) ==
    LET file_path == NormalizePath(file_location)
        file_name == BaseName(file_path)
        owner     == FirstOwner(graphs, file_path)
        assigned1 ==
            IF Truthy(file_location)
            THEN IF IsDependencyFile(file_name) THEN <<"dependencies">> ELSE owner
            ELSE None
        assigned2 ==
            IF assigned1 = None /\ ~Truthy(file_location)
            THEN <<"dependencies">>
            ELSE assigned1
    IN  IF assigned2 = None THEN "unknown" ELSE assigned2[1]

\* lines 80-88: one empty bucket per tool name, then the two categories
RECURSIVE InitBuckets(_, _)
InitBuckets(d, names) ==
    IF names = <<>> THEN d
    ELSE InitBuckets(DictSet(d, Head(names), <<>>), Tail(names))

ToolNames(ts) == [i \in 1..Len(ts) |-> ts[i].name]

\* the buckets without the "unknown" category
InitialBuckets_without_unknown(ts) ==
    InitBuckets(<<>>, ToolNames(ts) \o <<"dependencies">>)

InitialBuckets(ts) ==
    InitBuckets(<<>>, ToolNames(ts) \o <<"dependencies", "unknown">>)

\* an insertion at the front of the bucket
AppendTo_front(d, k, i) == DictSet(d, k, <<i>> \o DictGet(d, k))

\* list.append on the bucket of key k; a missing key is a KeyError
AppendTo(d, k, i) == DictSet(d, k, Append(DictGet(d, k), i))

\* lines 80-88
GroupStart ==
    /\ pc = "group"
    /\ tool_vulns' = InitialBuckets(tools)
    /\ vi' = 1
    /\ pc' = "group_loop"
    /\ UNCHANGED <<utilVars, tools, tool_graphs, vulnerabilities, group_result, graphVars, detectVars>>

\* lines 98-136: one iteration of the loop over the findings
GroupVuln ==
    /\ pc = "group_loop"
    /\ vi <= Len(vulnerabilities)
    /\ LET k == BucketOf(tool_graphs, vulnerabilities[vi])
       IN  IF DictHas(tool_vulns, k)
           THEN /\ tool_vulns' = AppendTo(tool_vulns, k, vi)
                /\ vi' = vi + 1
                /\ pc' = pc
           ELSE /\ pc' = "group_raised"
                /\ UNCHANGED <<tool_vulns, vi>>
    /\ UNCHANGED <<utilVars, tools, tool_graphs, vulnerabilities, group_result, graphVars, detectVars>>

\* lines 138-141
GroupReturn ==
    /\ pc = "group_loop"
    /\ vi > Len(vulnerabilities)
    /\ group_result' = RemoveEmpty(tool_vulns)
    /\ pc' = "group_done"
    /\ UNCHANGED <<utilVars, tools, tool_graphs, vulnerabilities, vi, tool_vulns, graphVars, detectVars>>

-----------------------------------------------------------------------------
(* CallGraphBuilder                                                        *)

\* File names are a stem followed by an extension; Path.suffix is read off
\* the name by matching it against the stems and extensions in use.
Stems == {"a", "b", "c", "__init__", "s", "h", "u", "index", "gone",
          "server", "helper", "setup", "requirements", "package", "x",
          "tools", "lib", "m", "main", "__main__", "d"}

Extensions == {".py", ".ts", ".tsx", ".js", ".jsx", ".txt", ".json"}

SuffixOfName ==
    [name \in {st \o e : st \in Stems, e \in Extensions} |->
        CHOOSE e \in Extensions : \E st \in Stems : name = st \o e]

\* Path(p).suffix
Suffix(p) ==
    IF BaseName(p) \in DOMAIN SuffixOfName THEN SuffixOfName[BaseName(p)] ELSE ""

Parent(p) == SubSeq(p, 1, Len(p) - 1)

\* Path.exists() of an absolute path: the repository root, or a file of the
\* snapshot
Exists(abs) ==
    \/ abs = RepoPath
    \/ IsUnder(abs, RepoPath) /\ RelativeTo(abs, RepoPath) \in DOMAIN fs

\* a resolver that finds no file
ResolvePythonImport_nothing(parts, current_dir) == <<>>

\* Path(*parts).with_suffix('.py') for a dotted module name
ModulePath(parts) == [parts EXCEPT ![Len(parts)] = parts[Len(parts)] \o ".py"]

\* _resolve_python_import (lines 124-159); current_dir is absolute
ResolvePythonImport(parts, current_dir) ==
    LET module_file   == RepoPath \o ModulePath(parts)
        package_init  == RepoPath \o parts \o <<"__init__.py">>
        relative_file == current_dir \o <<parts[Len(parts)] \o ".py">>
    IN  (IF Exists(module_file)
         THEN <<RelativeTo(module_file, RepoPath)>> ELSE <<>>)
        \o
        (IF Exists(package_init)
         THEN <<RelativeTo(package_init, RepoPath)>> ELSE <<>>)
        \o
        (IF Exists(relative_file) /\ IsUnder(Parent(relative_file), RepoPath)
         THEN <<RelativeTo(relative_file, RepoPath)>> ELSE <<>>)

\* Path(str(p) + ext)
WithExt(p, ext) == [p EXCEPT ![Len(p)] = p[Len(p)] \o ext]

extensions == <<".ts", ".tsx", ".js", ".jsx", "">>

\* _resolve_javascript_import (lines 222-253), from the i-th extension on.
\* The result is [paths, raised]: for a non-empty extension the index-file
\* expression of line 248 adds a string to a Path, which raises TypeError, so
\* the loop never gets past an extension whose file does not exist.
RECURSIVE ProbeExtensions(_, _)
ProbeExtensions(resolved, i) ==
    IF i > Len(extensions) THEN [paths |-> <<>>, raised |-> FALSE]
    ELSE LET ext == extensions[i]
             file_with_ext == IF ext # "" THEN WithExt(resolved, ext) ELSE resolved
             index_file == file_with_ext \o <<"index">>
         IN  IF Exists(file_with_ext) /\ IsUnder(Parent(file_with_ext), RepoPath)
             THEN [paths |-> <<RelativeTo(file_with_ext, RepoPath)>>, raised |-> FALSE]
             ELSE IF ext # ""
                  THEN [paths |-> <<>>, raised |-> TRUE]
                  ELSE IF Exists(index_file) /\ IsUnder(Parent(index_file), RepoPath)
                       THEN [paths |-> <<RelativeTo(index_file, RepoPath)>>,
                             raised |-> FALSE]
                       ELSE ProbeExtensions(resolved, i + 1)

\* (current_dir / import_path).resolve() for a specifier "./x/y"
ResolveJavascriptImport(target, current_dir) ==
    ProbeExtensions(current_dir \o target, 1)

\* The resolved paths one file contributes, in the order the loop meets
\* them (lines 83-106): nothing when the file cannot be read or parsed.
RECURSIVE PythonTargets(_, _)
PythonTargets(imports, current_dir) ==
    IF imports = <<>> THEN <<>>
    ELSE ResolvePythonImport(Head(imports), current_dir)
         \o PythonTargets(Tail(imports), current_dir)

\* lines 184-205: a specifier that does not start with "." is skipped; an
\* exception of the resolver ends the loop with what was collected so far.
RECURSIVE JavascriptTargets(_, _)
JavascriptTargets(imports, current_dir) ==
    IF imports = <<>> THEN <<>>
    ELSE IF ~Head(imports).relative
         THEN JavascriptTargets(Tail(imports), current_dir)
         ELSE LET r == ResolveJavascriptImport(Head(imports).target, current_dir)
              IN  IF r.raised THEN <<>>
                  ELSE r.paths \o JavascriptTargets(Tail(imports), current_dir)

Targets(lang, rel) ==
    LET abs == Join(RepoPath, rel)
    IN  IF ~(rel \in DOMAIN fs) \/ ~fs[rel].ok THEN <<>>
        ELSE IF lang = "python"
             THEN PythonTargets(fs[rel].imports, Parent(abs))
             ELSE JavascriptTargets(fs[rel].imports, Parent(abs))

\* a builder that adds the resolved file and does not walk it
Recurses_never(lang, rel) == FALSE

\* lines 110 and 209: the resolved file is walked in turn
Recurses(lang, rel) ==
    /\ Exists(Join(RepoPath, rel))
    /\ IF lang = "python" THEN Suffix(rel) = ".py"
       ELSE Suffix(rel) \in {".js", ".ts", ".jsx", ".tsx"}

NewFrame(rel) == [rel |-> rel, entered |-> FALSE, todo |-> <<>>, deps |-> {}]

Top == stack[Len(stack)]

\* a visited set that outlives the walk of one tool
FreshVisited_shared(previous) == previous

\* lines 73-74, 175-176: the outermost call is made without a visited set
\* and starts from an empty one, whatever an earlier tool's walk visited
FreshVisited(previous) == {}

\* lines 54-57: the language decides which builder walks the anchor
WalkerOf(language) ==
    IF language = "python" THEN "python"
    ELSE IF language \in {"typescript", "javascript"} THEN "javascript"
    ELSE "none"

\* build_graphs' loop (lines 27-28) entering _build_tool_graph (lines 44-57)
BuildToolGraph ==
    /\ pc = "build"
    /\ ti <= Len(tools)
    /\ LET tool == tools[ti]
       IN  IF ~Exists(Join(RepoPath, tool.file_path)) \/ WalkerOf(tool.language) = "none"
           THEN /\ tool_graphs' = DictSet(tool_graphs, tool.name, {tool.file_path})
                /\ ti' = ti + 1
                /\ UNCHANGED <<pc, walk_lang, visited, stack>>
           ELSE /\ walk_lang' = WalkerOf(tool.language)
                /\ visited' = FreshVisited(visited)
                /\ stack' = <<NewFrame(tool.file_path)>>
                /\ pc' = "walk"
                /\ UNCHANGED <<tool_graphs, ti>>
    /\ UNCHANGED <<utilVars, tools, fs, previous_graphs, groupVars, detectVars>>

\* entry of _build_python_graph / _build_javascript_graph (lines 73-85,
\* 175-187): a visited file returns the empty set at once, another one is
\* marked and its imports are read
GraphCall ==
    /\ pc = "walk"
    /\ ~Top.entered
    /\ IF Top.rel \in visited
       THEN /\ stack' = [stack EXCEPT ![Len(stack)] = [@ EXCEPT !.entered = TRUE]]
            /\ UNCHANGED visited
       ELSE /\ visited' = visited \cup {Top.rel}
            /\ stack' = [stack EXCEPT ![Len(stack)] =
                            [@ EXCEPT !.entered = TRUE,
                                      !.todo = Targets(walk_lang, Top.rel)]]
    /\ UNCHANGED <<utilVars, pc, tools, tool_graphs, fs, ti, walk_lang, previous_graphs, groupVars,
                   detectVars>>

\* one resolved path (lines 104-116, 203-215): added, and walked if it is a
\* source file that exists
GraphImport ==
    /\ pc = "walk"
    /\ Top.entered
    /\ Top.todo # <<>>
    /\ LET resolved_path == Head(Top.todo)
           frame == [Top EXCEPT !.todo = Tail(@), !.deps = @ \cup {resolved_path}]
           below == [stack EXCEPT ![Len(stack)] = frame]
       IN  stack' = IF Recurses(walk_lang, resolved_path)
                    THEN Append(below, NewFrame(resolved_path))
                    ELSE below
    /\ UNCHANGED <<utilVars, pc, tools, tool_graphs, fs, ti, walk_lang, visited, previous_graphs,
                   groupVars, detectVars>>

\* return of a builder call (lines 122, 220): the caller merges the set; the
\* outermost return ends _build_tool_graph (lines 48, 55-59) and build_graphs
\* stores the set under the tool's name (line 28)
GraphReturn ==
    /\ pc = "walk"
    /\ Top.entered
    /\ Top.todo = <<>>
    /\ IF Len(stack) > 1
       THEN /\ stack' = [SubSeq(stack, 1, Len(stack) - 1) EXCEPT ![Len(stack) - 1] =
                            [@ EXCEPT !.deps = @ \cup Top.deps]]
            /\ UNCHANGED <<pc, tool_graphs, ti>>
       ELSE /\ stack' = <<>>
            /\ tool_graphs' = DictSet(tool_graphs, tools[ti].name,
                                      {tools[ti].file_path} \cup Top.deps)
            /\ ti' = ti + 1
            /\ pc' = "build"
    /\ UNCHANGED <<utilVars, tools, fs, walk_lang, visited, previous_graphs, groupVars, detectVars>>

\* line 30
BuildGraphsReturn ==
    /\ pc = "build"
    /\ ti > Len(tools)
    /\ pc' = "built"
    /\ UNCHANGED <<utilVars, tools, tool_graphs, graphVars, groupVars, detectVars>>

-----------------------------------------------------------------------------
(* MCPTool and the server's output                                         *)

\* MCPTool (tool_detector.py 14-22); the description is not modelled
MCPTool(name, file_path, line_number, language) ==
    [name |-> name, file_path |-> file_path, line_number |-> line_number,
     language |-> language]

Tool(name, file_path, language) == MCPTool(name, file_path, 0, language)

\* the placeholder tool of ToolDetector.detect_tools (tool_detector.py 306-311)
PlaceholderTool == Tool("unknown", RepoPath, "unknown")

\* number of lines the server process writes to its standard output
MaxLines == 2

\* an element of a "tools" array: an object with a name, an object without
\* one, or a value that is no object
NamedTool(name) == [object |-> TRUE, name |-> <<name>>]
UnnamedTool == [object |-> TRUE, name |-> None]
NotAnObject == [object |-> FALSE, name |-> None]

\* the "tools" member: a list of elements, or a value that cannot be iterated
ToolsList(elems) == [list |-> TRUE, elems |-> elems]
NotAList == [list |-> FALSE, elems |-> <<>>]

\* One line of output: the initialize response (id 1), a tools/list response
\* (id 2, result.tools as given), text that is not JSON, or JSON that is not
\* an object.
InitResponse == [kind |-> "init", tools |-> ToolsList(<<>>)]
ToolsResponse(v) == [kind |-> "tools", tools |-> v]
NotJson == [kind |-> "garbage", tools |-> ToolsList(<<>>)]
NotAnObjectLine == [kind |-> "nonobject", tools |-> ToolsList(<<>>)]

OutputLines ==
    {InitResponse, NotJson, NotAnObjectLine,
     ToolsResponse(ToolsList(<<>>)),
     ToolsResponse(ToolsList(<<NamedTool("foo")>>)),
     ToolsResponse(ToolsList(<<NamedTool("bar"), NamedTool("foo")>>)),
     ToolsResponse(ToolsList(<<UnnamedTool>>)),
     ToolsResponse(ToolsList(<<NamedTool("foo"), NotAnObject>>)),
     ToolsResponse(NotAList)}

-----------------------------------------------------------------------------
(* RuntimeToolDetector                                                     *)

\* candidates (lines 68-88): glob patterns, component by component
candidates ==
    << <<"server.py">>, <<"main.py">>, <<"__main__.py">>,
       <<"src", "server.py">>, <<"src", "main.py">>, <<"src", "__main__.py">>,
       <<"src", "**", "server.py">>, <<"src", "**", "main.py">>,
       <<"**", "server.py">>, <<"**", "main.py">>, <<"**", "__main__.py">>,
       <<"index.ts">>, <<"server.ts">>, <<"src", "index.ts">>, <<"src", "server.ts">>,
       <<"package.json">> >>

\* Path.glob: "**" stands for any number of directories, none included
RECURSIVE GlobMatch(_, _)
GlobMatch(pattern, path) ==
    IF pattern = <<>> THEN path = <<>>
    ELSE IF Head(pattern) = "**"
         THEN \/ GlobMatch(Tail(pattern), path)
              \/ path # <<>> /\ GlobMatch(pattern, Tail(path))
         ELSE /\ path # <<>>
              /\ Head(pattern) = Head(path)
              /\ GlobMatch(Tail(pattern), Tail(path))

\* the files of the repository in the order the directory walk yields them
RepoListing ==
    project.listing
    \o (IF project.package_json # "absent" THEN << <<"package.json">> >> ELSE <<>>)

\* _is_mcp_entry_point (lines 100-140)
IsMcpEntryPoint(file_path) ==
    IF Suffix(file_path) = ".py" THEN file_path \in project.signature
    ELSE IF Suffix(file_path) \in {".ts", ".js"} THEN file_path \in project.signature
    ELSE IF BaseName(file_path) = "package.json"
         THEN project.package_json \in {"start", "bin"}
         ELSE FALSE

\* _find_entry_point (lines 90-98), from the i-th candidate on
RECURSIVE FindEntryPoint(_)
FindEntryPoint(i) ==
    IF i > Len(candidates) THEN None
    ELSE LET matches == SelectSeq(RepoListing,
                                  LAMBDA f : GlobMatch(candidates[i], f)
                                             /\ IsMcpEntryPoint(f))
         IN  IF matches # <<>> THEN matches[1] ELSE FindEntryPoint(i + 1)

\* _get_server_command (lines 142-199); the empty list stands for None and
\* "<entry>" for str(entry_point)
GetServerCommand(entry) ==
    IF Suffix(entry) = ".py"
    THEN IF project.pyproject # "absent"
         THEN IF project.pyproject = "scripts"
              THEN <<"sh", "-c", "uv pip install -e . && uv run <script>">>
              ELSE <<"uv", "run", "python", "<entry>">>
         ELSE <<"python", "<entry>">>
    ELSE IF Suffix(entry) \in {".ts", ".js"}
         THEN IF project.package_json = "start" THEN <<"npm", "start">>
              ELSE IF project.package_json = "bin" THEN <<"node", "<bin>">>
              ELSE IF Suffix(entry) = ".ts" THEN <<"npx", "tsx", "<entry>">>
              ELSE <<"node", "<entry>">>
         ELSE <<>>

\* truth value of the "tools" member of a tools/list result
TruthyTools(v) == ~v.list \/ v.elems # <<>>

\* the loop over the output lines (lines 270-285)
RECURSIVE ParseLines(_)
ParseLines(lines) ==
    IF lines = <<>> THEN [status |-> "none", exc |-> "", tools |-> <<>>]
    ELSE LET line == Head(lines)
         IN  IF line.kind = "nonobject"
             THEN [status |-> "raise", exc |-> "AttributeError", tools |-> <<>>]
             ELSE IF line.kind = "tools" /\ TruthyTools(line.tools)
                  THEN [status |-> "return", exc |-> "", tools |-> line.tools]
                  ELSE ParseLines(Tail(lines))

\* the line of the first definition of tool_name in a file, 0 when it has none
DefLine(file_path, tool_name) ==
    LET names == IF file_path \in DOMAIN project.declared
                 THEN project.declared[file_path] ELSE <<>>
        hits  == {i \in 1..Len(names) : names[i] = tool_name}
    IN  IF hits = {} THEN 0 ELSE CHOOSE i \in hits : \A j \in hits : i <= j

\* a search that stops at the entry point
FindToolInSource_entry_only(tool_name, entry) ==
    IF DefLine(entry, tool_name) > 0 THEN <<entry, DefLine(entry, tool_name)>>
    ELSE <<entry, 0>>

\* _find_tool_in_source (lines 321-354): <<relative path, line number>>
FindToolInSource(tool_name, entry) ==
    LET siblings == SelectSeq(RepoListing,
                              LAMBDA f : Parent(f) = Parent(entry)
                                         /\ Suffix(f) = Suffix(entry))
        search_files == <<entry>> \o (IF Parent(entry) # <<>> THEN siblings ELSE <<>>)
        found == SelectSeq(search_files, LAMBDA f : DefLine(f, tool_name) > 0)
    IN  IF found # <<>> THEN <<found[1], DefLine(found[1], tool_name)>>
        ELSE <<entry, 0>>

\* lines 302-309
LanguageOf(entry) ==
    IF Suffix(entry) = ".py" THEN "python"
    ELSE IF Suffix(entry) \in {".ts", ".tsx"} THEN "typescript"
    ELSE IF Suffix(entry) \in {".js", ".jsx"} THEN "javascript"
    ELSE "unknown"

\* _parse_tools_response (lines 291-319): iterating a value that is no list,
\* or calling get on an element that is no object, raises
RECURSIVE ConvertTools(_, _)
ConvertTools(elems, entry) ==
    IF elems = <<>> THEN [status |-> "return", exc |-> "", tools |-> <<>>]
    ELSE IF ~Head(elems).object
         THEN [status |-> "raise", exc |-> "AttributeError", tools |-> <<>>]
         ELSE LET name == IF Head(elems).name = None THEN "unknown"
                          ELSE Head(elems).name[1]
                  where == FindToolInSource(name, entry)
                  rest == ConvertTools(Tail(elems), entry)
              IN  IF rest.status = "raise" THEN rest
                  ELSE [rest EXCEPT !.tools =
                           <<MCPTool(name, where[1], where[2], LanguageOf(entry))>> \o @]

ParseToolsResponse(tools_list, entry) ==
    IF ~tools_list.list
    THEN [status |-> "raise", exc |-> "TypeError", tools |-> <<>>]
    ELSE ConvertTools(tools_list.elems, entry)

\* a handler for the timeout alone
DetectToolsCatches_timeout_only(exc) == exc = "TimeoutError"

\* line 287: except Exception around the body of _query_tools
QueryToolsCatches(exc) == TRUE

\* lines 58-63: except asyncio.TimeoutError / except Exception in detect_tools
DetectToolsCatches(exc) == TRUE

\* An exception raised in _query_tools (in_query) or in the try block of
\* detect_tools: a handler that catches it makes the detector return [];
\* otherwise it reaches the handler of ToolDetector.detect_tools (line 290),
\* which goes on with static detection.
RuntimeFailure(exc, in_query, cause) ==
    /\ runtime_tools' = <<>>
    /\ IF (in_query /\ QueryToolsCatches(exc)) \/ DetectToolsCatches(exc)
       THEN /\ pc' = "rt_done"
            /\ di' = di
            /\ trace' = [trace EXCEPT !.cause = cause]
       ELSE /\ pc' = "static"
            /\ di' = 1
            /\ trace' = [trace EXCEPT !.cause = cause, !.rt_raised = TRUE]

\* lines 31-40
RuntimeFindEntry ==
    /\ pc = "rt_entry"
    /\ LET entry == FindEntryPoint(1)
       IN  IF entry = None
           THEN /\ pc' = "rt_done"
                /\ trace' = [trace EXCEPT !.cause = "no_entry_point"]
                /\ UNCHANGED entry_point
           ELSE IF GetServerCommand(entry) = <<>>
                THEN /\ pc' = "rt_done"
                     /\ trace' = [trace EXCEPT !.cause = "no_command"]
                     /\ entry_point' = entry
                ELSE /\ pc' = "rt_spawn"
                     /\ entry_point' = entry
                     /\ UNCHANGED trace
    /\ runtime_tools' = <<>>
    /\ UNCHANGED <<utilVars, tools, tool_graphs, graphVars, groupVars, use_runtime_detection,
                   loop_running, project, child, pipe, written, stdout_data, di>>

\* lines 210-216: create_subprocess_exec starts the server or raises
RuntimeSpawn ==
    /\ pc = "rt_spawn"
    /\ \E started \in BOOLEAN :
          IF started
          THEN /\ child' = "running"
               /\ pc' = "rt_write"
               /\ trace' = [trace EXCEPT !.spawned = @ + 1]
               /\ UNCHANGED <<runtime_tools, di>>
          ELSE /\ RuntimeFailure("FileNotFoundError", TRUE, "spawn_error")
               /\ UNCHANGED child
    /\ UNCHANGED <<utilVars, tools, tool_graphs, graphVars, groupVars, use_runtime_detection,
                   loop_running, project, entry_point, pipe, written, stdout_data>>

\* lines 247-248: the two requests are written and drained; writing to a
\* child that has closed its standard input, or that is gone, raises
RuntimeWrite ==
    /\ pc = "rt_write"
    /\ \E broken \in BOOLEAN :
          IF broken
          THEN RuntimeFailure("BrokenPipeError", TRUE, "write_error")
          ELSE /\ pc' = "rt_read"
               /\ UNCHANGED <<runtime_tools, di, trace>>
    /\ UNCHANGED <<utilVars, tools, tool_graphs, graphVars, groupVars, use_runtime_detection,
                   loop_running, project, entry_point, child, pipe, written,
                   stdout_data>>

\* lines 251-254: read returns what has arrived so far, once something has
\* arrived or the child has closed its output
RuntimeRead ==
    /\ pc = "rt_read"
    /\ pipe # <<>> \/ child = "exited"
    /\ stdout_data' = pipe
    /\ pipe' = <<>>
    /\ pc' = "rt_close"
    /\ UNCHANGED <<utilVars, tools, tool_graphs, graphVars, groupVars, use_runtime_detection,
                   loop_running, project, entry_point, child, written,
                   runtime_tools, di, trace>>

\* a timeout handler that leaves the child as it is
ChildAfterTimeout_untouched == "running"

\* lines 265-266: process.kill() and process.wait(), with nothing before them
ChildAfterTimeout == "killed"

\* lines 264-267: nothing arrived within the timeout; the child is killed and
\* waited for, and the TimeoutError is raised again
RuntimeTimeout ==
    /\ pc = "rt_read"
    /\ pipe = <<>>
    /\ child = "running"
    /\ child' = ChildAfterTimeout
    /\ RuntimeFailure("TimeoutError", TRUE, "timeout")
    /\ UNCHANGED <<utilVars, tools, tool_graphs, graphVars, groupVars, use_runtime_detection,
                   loop_running, project, entry_point, pipe, written, stdout_data>>

\* lines 257-262: stdin is closed; a child that does not exit within two
\* seconds is killed; either way it has been waited for
RuntimeClose ==
    /\ pc = "rt_close"
    /\ child' = "reaped"
    /\ pc' = "rt_parse"
    /\ UNCHANGED <<utilVars, tools, tool_graphs, graphVars, groupVars, use_runtime_detection,
                   loop_running, project, entry_point, pipe, written, stdout_data,
                   runtime_tools, di, trace>>

\* lines 270-285 of _query_tools, then lines 48-56 of detect_tools
RuntimeParse ==
    /\ pc = "rt_parse"
    /\ LET parsed == ParseLines(stdout_data)
           converted == ParseToolsResponse(parsed.tools, entry_point)
       IN  IF parsed.status = "raise"
           THEN RuntimeFailure(parsed.exc, TRUE, "bad_line")
           ELSE IF parsed.status = "none"
                THEN /\ runtime_tools' = <<>>
                     /\ pc' = "rt_done"
                     /\ trace' = [trace EXCEPT !.cause = "no_tools"]
                     /\ UNCHANGED di
                ELSE IF converted.status = "raise"
                     THEN RuntimeFailure(converted.exc, FALSE, "malformed")
                     ELSE /\ runtime_tools' = converted.tools
                          /\ pc' = "rt_done"
                          /\ UNCHANGED <<di, trace>>
    /\ UNCHANGED <<utilVars, tools, tool_graphs, graphVars, groupVars, use_runtime_detection,
                   loop_running, project, entry_point, child, pipe, written,
                   stdout_data>>

\* the server process writes one more line to its standard output, at any
\* time until the detector has closed its standard input and waited for it;
\* a line written before the requests were sent waits in the pipe, unread,
\* like one written just after them, and is taken here as written then
ChildWrite ==
    /\ child = "running"
    /\ pc \in {"rt_read", "rt_close"}
    /\ Len(written) < MaxLines
    /\ \E line \in OutputLines :
          /\ pipe' = Append(pipe, line)
          /\ written' = Append(written, line)
    /\ UNCHANGED <<utilVars, pc, tools, tool_graphs, graphVars, groupVars, use_runtime_detection,
                   loop_running, project, entry_point, child, stdout_data,
                   runtime_tools, di, trace>>

\* the server process ends by itself, which closes its standard output
ChildExit ==
    /\ child = "running"
    /\ pc \in {"rt_write", "rt_read", "rt_close"}
    /\ child' = "exited"
    /\ UNCHANGED <<utilVars, pc, tools, tool_graphs, graphVars, groupVars, use_runtime_detection,
                   loop_running, project, entry_point, pipe, written, stdout_data,
                   runtime_tools, di, trace>>

-----------------------------------------------------------------------------
(* ToolDetector and the static detectors                                   *)

\* the detectors registered the other way round
DETECTOR_CLASSES_reversed == <<"typescript", "python">>

\* DETECTOR_CLASSES (lines 240-244), by language_name
DETECTOR_CLASSES == <<"python", "typescript">>

\* file_extensions (lines 98-99, 180-181)
file_extensions(detector) ==
    IF detector = "python" THEN <<".py">> ELSE <<".ts", ".tsx", ".js", ".jsx">>

\* line 74
skipped_directories ==
    {".git", "node_modules", ".venv", "venv", "__pycache__", "vendor", "dist", "build"}

\* detect_tools_in_file (lines 101-147, 183-220): one tool per declaration,
\* in the order of the declarations
DetectToolsInFile(detector, file_path) ==
    LET names == project.declared[file_path]
    IN  [i \in 1..Len(names) |-> MCPTool(names[i], file_path, i, detector)]

\* the skip test of line 74: file_path.parts are the components of the
\* absolute path, those of the repository root included
SkipsFile(file_path) ==
    \E i \in 1..Len(project.root \o file_path) :
       (project.root \o file_path)[i] \in skipped_directories

\* the loop over the files of one extension (lines 71-77)
RECURSIVE DetectInFiles(_, _)
DetectInFiles(detector, files) ==
    IF files = <<>> THEN <<>>
    ELSE (IF SkipsFile(Head(files))
          THEN <<>>
          ELSE DetectToolsInFile(detector, Head(files)))
         \o DetectInFiles(detector, Tail(files))

\* detect_all_tools (lines 65-79), from the i-th extension on
RECURSIVE DetectAllTools(_, _)
DetectAllTools(detector, i) ==
    IF i > Len(file_extensions(detector)) THEN <<>>
    ELSE DetectInFiles(detector,
                       SelectSeq(project.listing,
                                 LAMBDA f : Suffix(f) = file_extensions(detector)[i]))
         \o DetectAllTools(detector, i + 1)

\* is_mcp_server (lines 149-161, 222-233)
IsMcpServer(detector) ==
    IF detector = "python" THEN project.py_signal ELSE project.ts_signal

\* _is_any_mcp_server (lines 315-320)
IsAnyMcpServer ==
    \E i \in 1..Len(DETECTOR_CLASSES) : IsMcpServer(DETECTOR_CLASSES[i])

\* detect_tools without the check for a running loop
SkipsRuntime_never(running) == FALSE

\* detect_tools going on to the static detectors whatever the runtime found
ShortCircuits_never(found) == FALSE

\* lines 274-280: a running event loop makes detect_tools skip the runtime
\* detection
SkipsRuntime(running) == running

\* line 284
ShortCircuits(found) == found # <<>>

\* the placeholder added whatever was found
WithPlaceholder_always(found) ==
    IF IsAnyMcpServer THEN found \o <<PlaceholderTool>> ELSE found

\* lines 303-311: the placeholder tool
WithPlaceholder(found) ==
    IF found = <<>> /\ IsAnyMcpServer THEN <<PlaceholderTool>> ELSE found

\* lines 264-282: the start of detect_tools
DetectStart ==
    /\ pc = "detect"
    /\ tools' = <<>>
    /\ IF use_runtime_detection /\ ~SkipsRuntime(loop_running)
       THEN /\ pc' = "rt_entry"
            /\ trace' = [trace EXCEPT !.rt_invoked = TRUE]
            /\ UNCHANGED di
       ELSE /\ pc' = "static"
            /\ di' = 1
            /\ UNCHANGED trace
    /\ UNCHANGED <<utilVars, tool_graphs, graphVars, groupVars, use_runtime_detection,
                   loop_running, project, entry_point, child, pipe, written,
                   stdout_data, runtime_tools>>

\* lines 282-289: asyncio.run has returned the runtime detector's list; the
\* locals of _query_tools (the process object with its pipes, stdout_data)
\* are gone with its frame
RuntimeReturn ==
    /\ pc = "rt_done"
    /\ IF ShortCircuits(runtime_tools)
       THEN /\ tools' = runtime_tools
            /\ pc' = "detected"
            /\ UNCHANGED di
       ELSE /\ pc' = "static"
            /\ di' = 1
            /\ UNCHANGED tools
    /\ pipe' = <<>>
    /\ written' = <<>>
    /\ stdout_data' = <<>>
    /\ UNCHANGED <<utilVars, tool_graphs, graphVars, groupVars, use_runtime_detection,
                   loop_running, project, entry_point, child, runtime_tools, trace>>

\* lines 296-298: one detector of the static loop
StaticDetect ==
    /\ pc = "static"
    /\ di <= Len(DETECTOR_CLASSES)
    /\ tools' = tools \o DetectAllTools(DETECTOR_CLASSES[di], 1)
    /\ trace' = [trace EXCEPT !.static_calls = Append(@, DETECTOR_CLASSES[di])]
    /\ di' = di + 1
    /\ UNCHANGED <<utilVars, pc, tool_graphs, graphVars, groupVars, use_runtime_detection,
                   loop_running, project, entry_point, child, pipe, written,
                   stdout_data, runtime_tools>>

\* lines 303-313: the placeholder tool, then the return
DetectReturn ==
    /\ pc = "static"
    /\ di > Len(DETECTOR_CLASSES)
    /\ tools' = WithPlaceholder(tools)
    /\ pc' = "detected"
    /\ UNCHANGED <<utilVars, tool_graphs, graphVars, groupVars, detectVars>>

-----------------------------------------------------------------------------
(* Inputs                                                                  *)

\* total number of import statements in a repository snapshot
MaxImports == 2

\* number of findings handed to _group_by_tool
MaxVulns == 3

BoundedSeq(S, n) == UNION {[1..k -> S] : k \in 0..n}

\* lists of at most two tools: tools are handled one by one, and only a name
\* shared by two tools couples them
ToolLists(U) == {<<>>} \cup {<<t>> : t \in U} \cup {<<t, u>> : t \in U, u \in U}

PyFiles == {<<"a.py">>, <<"pkg", "__init__.py">>, <<"pkg", "c.py">>}

\* import a / import pkg / import pkg.c / import c
PyImportNames == {<<"a">>, <<"pkg">>, <<"pkg", "c">>, <<"c">>}

PyTools ==
    {Tool("foo", <<"a.py">>, "python"),
     Tool("bar", <<"pkg", "__init__.py">>, "python"),
     Tool("foo", <<"pkg", "c.py">>, "python"),
     Tool("bar", <<"gone.py">>, "python"),
     Tool("baz", <<"a.py">>, "go"),
     PlaceholderTool}

JsFiles == {<<"s.ts">>, <<"h.ts">>, <<"u.js">>}

\* from './s', from './h', require('./u'), from './gone', from 'zod'
JsImports ==
    {[relative |-> TRUE, target |-> <<"s">>],
     [relative |-> TRUE, target |-> <<"h">>],
     [relative |-> TRUE, target |-> <<"u">>],
     [relative |-> TRUE, target |-> <<"gone">>],
     [relative |-> FALSE, target |-> <<"zod">>]}

JsTools ==
    {Tool("foo", <<"s.ts">>, "typescript"),
     Tool("bar", <<"h.ts">>, "typescript"),
     Tool("foo", <<"u.js">>, "javascript"),
     Tool("bar", <<"gone.ts">>, "typescript")}

\* content of a file: its import statements in the order the builder meets
\* them, or a file that cannot be read or parsed
Contents(names) ==
    {[ok |-> TRUE, imports |-> q] : q \in BoundedSeq(names, MaxImports)}
    \cup {[ok |-> FALSE, imports |-> <<>>]}

RECURSIVE TotalImports(_, _)
TotalImports(f, files) ==
    IF files = {} THEN 0
    ELSE LET p == CHOOSE q \in files : TRUE
         IN  Len(f[p].imports) + TotalImports(f, files \ {p})

Repos(files, names) ==
    {f \in [files -> Contents(names)] : TotalImports(f, files) <= MaxImports}

InitGraph ==
    /\ \/ /\ fs \in Repos(PyFiles, PyImportNames)
          /\ tools \in ToolLists(PyTools)
       \/ /\ fs \in Repos(JsFiles, JsImports)
          /\ tools \in ToolLists(JsTools)
    /\ pc = "build"
    /\ tool_graphs = <<>>
    /\ ti = 1
    /\ walk_lang = "none"
    /\ visited = {}
    /\ stack = <<>>
    /\ previous_graphs = <<>>
    /\ call = <<>>
    /\ ret = <<>>
    /\ output_files = <<>>
    /\ vulnerabilities = <<>>
    /\ vi = 0
    /\ tool_vulns = <<>>
    /\ group_result = <<>>
    /\ use_runtime_detection = FALSE
    /\ loop_running = FALSE
    /\ project = <<>>
    /\ entry_point = None
    /\ child = "none"
    /\ pipe = <<>>
    /\ written = <<>>
    /\ stdout_data = <<>>
    /\ runtime_tools = <<>>
    /\ di = 0
    /\ trace = <<>>

NextGraph ==
    \/ BuildToolGraph
    \/ GraphCall
    \/ GraphImport
    \/ GraphReturn
    \/ BuildGraphsReturn

vars == <<pc, tools, tool_graphs, graphVars, groupVars, detectVars, utilVars>>

SpecGraph == InitGraph /\ [][NextGraph]_vars

\* the sequences with the elements of q in any order
Reordered(q) ==
    {[i \in 1..Len(q) |-> q[pi[i]]] :
        pi \in {f \in [1..Len(q) -> 1..Len(q)] :
                  \A i, j \in 1..Len(q) : f[i] = f[j] => i = j}}

\* the snapshots with the files and import statements of f, the import
\* statements of each file met in any order
Reorderings(f) ==
    LET Same(c) == {[ok |-> c.ok, imports |-> q] : q \in Reordered(c.imports)}
    IN  {g \in [DOMAIN f -> UNION {Same(f[p]) : p \in DOMAIN f}] :
            \A p \in DOMAIN f : g[p] \in Same(f[p])}

\* build_tool_call_graphs (lines 256-269) called once more, with a new
\* CallGraphBuilder, for the same tools on the same files, whose import
\* statements are met in another order
Rebuild ==
    /\ pc = "built"
    /\ previous_graphs = <<>>
    /\ previous_graphs' = <<tool_graphs>>
    /\ fs' \in Reorderings(fs)
    /\ tool_graphs' = <<>>
    /\ ti' = 1
    /\ pc' = "build"
    /\ UNCHANGED <<utilVars, tools, walk_lang, visited, stack, groupVars, detectVars>>

NextRebuild ==
    \/ NextGraph
    \/ Rebuild

SpecRebuild == InitGraph /\ [][NextRebuild]_vars

\* the walk is sequential code: a step that can be taken is taken
FairSpecGraph == SpecGraph /\ WF_vars(NextGraph)

\* A repository of four Python modules that import each other, and one
\* Python tool anchored at a.py.
MaxGraphImports == 4

ModuleFiles == {<<"a.py">>, <<"b.py">>, <<"c.py">>, <<"d.py">>}

\* import a / import b / import c / import d
ModuleNames == {<<"a">>, <<"b">>, <<"c">>, <<"d">>}

\* contents of a module with k import statements; a module that cannot be
\* read or parsed yields none
ModuleContents(k) ==
    {[ok |-> TRUE, imports |-> q] : q \in [1..k -> ModuleNames]}
    \cup (IF k = 0 THEN {[ok |-> FALSE, imports |-> <<>>]} ELSE {})

\* the numbers of import statements of the four modules
ImportCounts ==
    {n \in [ModuleFiles -> 0..MaxGraphImports] :
        n[<<"a.py">>] + n[<<"b.py">>] + n[<<"c.py">>] + n[<<"d.py">>] <= MaxGraphImports}

InitClosure ==
    /\ \E n \in ImportCounts :
          \E a \in ModuleContents(n[<<"a.py">>]), b \in ModuleContents(n[<<"b.py">>]),
             c \in ModuleContents(n[<<"c.py">>]), d \in ModuleContents(n[<<"d.py">>]) :
             fs = [p \in ModuleFiles |->
                      CASE p = <<"a.py">> -> a
                        [] p = <<"b.py">> -> b
                        [] p = <<"c.py">> -> c
                        [] p = <<"d.py">> -> d]
    /\ tools = <<Tool("foo", <<"a.py">>, "python")>>
    /\ pc = "build"
    /\ tool_graphs = <<>>
    /\ ti = 1
    /\ walk_lang = "none"
    /\ visited = {}
    /\ stack = <<>>
    /\ previous_graphs = <<>>
    /\ call = <<>>
    /\ ret = <<>>
    /\ output_files = <<>>
    /\ vulnerabilities = <<>>
    /\ vi = 0
    /\ tool_vulns = <<>>
    /\ group_result = <<>>
    /\ use_runtime_detection = FALSE
    /\ loop_running = FALSE
    /\ project = <<>>
    /\ entry_point = None
    /\ child = "none"
    /\ pipe = <<>>
    /\ written = <<>>
    /\ stdout_data = <<>>
    /\ runtime_tools = <<>>
    /\ di = 0
    /\ trace = <<>>

SpecClosure == InitClosure /\ [][NextGraph]_vars

\* Inputs of _group_by_tool: a tool list, a closure map build_graphs can
\* return for it (the keys are the tool names in order of first appearance,
\* each set holds the anchor of the last tool of that name) and findings.
GroupTools ==
    {Tool("foo", <<"server.py">>, "python"),
     Tool("bar", <<"helper.py">>, "python"),
     Tool("bar", <<"setup.py">>, "python"),
     Tool("foo", <<"helper.py">>, "python")}

ClosurePaths == {<<"server.py">>, <<"helper.py">>, <<"setup.py">>}

Locations ==
    {None, <<"">>,
     <<"helper.py">>,
     <<"/", RepoName, "helper.py">>,
     <<"/", RepoName, "setup.py">>,
     <<"/", "out", "x.py">>,
     <<"/", "out", "setup.py">>,
     <<"/", "mnt", RepoName, "helper.py">>}

FirstNames(ts) == DictKeys(InitBuckets(<<>>, ToolNames(ts)))

LastAnchor(ts, name) ==
    LET i == CHOOSE j \in 1..Len(ts) :
                 /\ ts[j].name = name
                 /\ \A k \in (j + 1)..Len(ts) : ts[k].name # name
    IN  ts[i].file_path

ClosureMaps(ts) ==
    LET ks == FirstNames(ts)
    IN  {[i \in 1..Len(ks) |-> <<ks[i], c[i]>>] :
            c \in {d \in [1..Len(ks) -> SUBSET ClosurePaths] :
                      \A i \in 1..Len(ks) : LastAnchor(ts, ks[i]) \in d[i]}}

InitGroup ==
    /\ tools \in ToolLists(GroupTools)
    /\ tool_graphs \in ClosureMaps(tools)
    /\ vulnerabilities \in BoundedSeq(Locations, MaxVulns)
    /\ pc = "group"
    /\ fs = <<>>
    /\ ti = 0
    /\ walk_lang = "none"
    /\ visited = {}
    /\ stack = <<>>
    /\ previous_graphs = <<>>
    /\ call = <<>>
    /\ ret = <<>>
    /\ output_files = <<>>
    /\ vi = 0
    /\ tool_vulns = <<>>
    /\ group_result = <<>>
    /\ use_runtime_detection = FALSE
    /\ loop_running = FALSE
    /\ project = <<>>
    /\ entry_point = None
    /\ child = "none"
    /\ pipe = <<>>
    /\ written = <<>>
    /\ stdout_data = <<>>
    /\ runtime_tools = <<>>
    /\ di = 0
    /\ trace = <<>>

NextGroup ==
    \/ GroupStart
    \/ GroupVuln
    \/ GroupReturn

SpecGroup == InitGroup /\ [][NextGroup]_vars

\* Inputs of _group_by_tool with a tool named like a category: a runtime
\* tool without a name, which _parse_tools_response names "unknown"
\* (runtime_tool_detector.py line 296), a tool named "dependencies", and the
\* placeholder tool, which is the only tool of its list (tool_detector.py
\* lines 303-311)
CategoryTools ==
    {Tool("foo", <<"server.py">>, "python"),
     Tool("unknown", <<"helper.py">>, "python"),
     Tool("dependencies", <<"helper.py">>, "python")}

CategoryLocations ==
    {None,
     <<"helper.py">>,
     <<"server.py">>,
     <<"/", RepoName, "setup.py">>,
     <<"/", "out", "x.py">>}

\* the closure of the placeholder tool is its file_path alone, the text of
\* the repository root (call_graph.py lines 44-58: no builder for the
\* language "unknown")
CategoryClosureMaps(ts) ==
    IF ts = <<PlaceholderTool>>
    THEN {<< <<"unknown", {RepoPath}>> >>}
    ELSE ClosureMaps(ts)

InitCategories ==
    /\ tools \in ToolLists(CategoryTools) \cup {<<PlaceholderTool>>}
    /\ tool_graphs \in CategoryClosureMaps(tools)
    /\ vulnerabilities \in BoundedSeq(CategoryLocations, MaxVulns)
    /\ pc = "group"
    /\ fs = <<>>
    /\ ti = 0
    /\ walk_lang = "none"
    /\ visited = {}
    /\ stack = <<>>
    /\ previous_graphs = <<>>
    /\ call = <<>>
    /\ ret = <<>>
    /\ output_files = <<>>
    /\ vi = 0
    /\ tool_vulns = <<>>
    /\ group_result = <<>>
    /\ use_runtime_detection = FALSE
    /\ loop_running = FALSE
    /\ project = <<>>
    /\ entry_point = None
    /\ child = "none"
    /\ pipe = <<>>
    /\ written = <<>>
    /\ stdout_data = <<>>
    /\ runtime_tools = <<>>
    /\ di = 0
    /\ trace = <<>>

SpecCategories == InitCategories /\ [][NextGroup]_vars

\* run_all_scanners_by_tool (lines 48-61): the closure map build_graphs
\* returned is the one _group_by_tool reads, for the findings of one scanner
ScanGroup ==
    /\ pc = "built"
    /\ pc' = "group"
    /\ UNCHANGED <<utilVars, tools, tool_graphs, graphVars, groupVars, detectVars>>

\* A repository with server.py, helper.py and requirements.txt; the tools
\* that can be anchored in it and the findings that can be reported on it.
ScanFiles == {<<"server.py">>, <<"helper.py">>, <<"requirements.txt">>}

\* import helper / import server
ScanImportNames == {<<"helper">>, <<"server">>}

ScanRepos ==
    {f \in Repos(ScanFiles, ScanImportNames) :
        f[<<"requirements.txt">>] = [ok |-> TRUE, imports |-> <<>>]}

ScanTools ==
    {Tool("foo", <<"server.py">>, "python"),
     Tool("bar", <<"helper.py">>, "python")}

ScanLocations == {None, <<"helper.py">>, <<"requirements.txt">>}

InitScan ==
    /\ fs \in ScanRepos
    /\ tools \in ToolLists(ScanTools)
    /\ vulnerabilities \in BoundedSeq(ScanLocations, MaxVulns)
    /\ pc = "build"
    /\ tool_graphs = <<>>
    /\ ti = 1
    /\ walk_lang = "none"
    /\ visited = {}
    /\ stack = <<>>
    /\ previous_graphs = <<>>
    /\ call = <<>>
    /\ ret = <<>>
    /\ output_files = <<>>
    /\ vi = 0
    /\ tool_vulns = <<>>
    /\ group_result = <<>>
    /\ use_runtime_detection = FALSE
    /\ loop_running = FALSE
    /\ project = <<>>
    /\ entry_point = None
    /\ child = "none"
    /\ pipe = <<>>
    /\ written = <<>>
    /\ stdout_data = <<>>
    /\ runtime_tools = <<>>
    /\ di = 0
    /\ trace = <<>>

NextScan ==
    \/ NextGraph
    \/ ScanGroup
    \/ NextGroup

SpecScan == InitScan /\ [][NextScan]_vars

\* What the detectors find in the repository.
SourceFiles ==
    <<<<"server.py">>, <<"tools.py">>, <<"src", "server.py">>, <<"src", "tools.py">>,
      <<"src", "lib.ts">>, <<"vendor", "lib.py">>, <<"index.ts">>,
      <<"node_modules", "m.js">>>>

Reverse(q) == [i \in 1..Len(q) |-> q[Len(q) + 1 - i]]

\* the declarations of each source file, one per line
Declared(a, b, c, d) ==
    [f \in {SourceFiles[i] : i \in 1..Len(SourceFiles)} |->
        IF f = <<"server.py">> THEN a
        ELSE IF f = <<"src", "tools.py">> THEN b
        ELSE IF f = <<"index.ts">> THEN c
        ELSE IF f \in {<<"tools.py">>, <<"src", "lib.ts">>} THEN d
        ELSE IF f = <<"vendor", "lib.py">> THEN <<"vend">>
        ELSE IF f = <<"node_modules", "m.js">> THEN <<"dep">>
        ELSE <<>>]

DeclaredMaps ==
    {Declared(<<>>, <<>>, <<>>, <<>>),
     Declared(<<"foo">>, <<>>, <<"qux">>, <<"bar">>),
     Declared(<<"foo">>, <<"bar", "foo">>, <<"qux">>, <<>>),
     Declared(<<>>, <<"bar", "foo">>, <<>>, <<>>)}

\* the manifests: <<pyproject.toml, package.json>>
Manifests ==
    {<<"absent", "absent">>, <<"plain", "absent">>, <<"scripts", "absent">>,
     <<"absent", "plain">>, <<"absent", "start">>, <<"absent", "bin">>}

\* the repositories checked out at one of the roots
ProjectsAt(roots) ==
    {[root |-> r, listing |-> l, signature |-> s, declared |-> d,
      pyproject |-> m[1], package_json |-> m[2], py_signal |-> py,
      ts_signal |-> ts] :
       r \in roots,
       l \in {SourceFiles, Reverse(SourceFiles)},
       s \in {{}, {<<"server.py">>}, {<<"src", "server.py">>}, {<<"index.ts">>}},
       d \in DeclaredMaps,
       m \in Manifests,
       py \in BOOLEAN,
       ts \in BOOLEAN}

Projects == ProjectsAt({RepoPath})

InitDetect ==
    /\ use_runtime_detection \in BOOLEAN
    /\ loop_running \in BOOLEAN
    /\ project \in {p \in Projects : p.ts_signal => p.package_json # "absent"}
    /\ pc = "detect"
    /\ tools = <<>>
    /\ entry_point = None
    /\ child = "none"
    /\ pipe = <<>>
    /\ written = <<>>
    /\ stdout_data = <<>>
    /\ runtime_tools = <<>>
    /\ di = 0
    /\ trace = [spawned |-> 0, static_calls |-> <<>>, rt_invoked |-> FALSE,
                rt_raised |-> FALSE, cause |-> "none"]
    /\ tool_graphs = <<>>
    /\ fs = <<>>
    /\ ti = 0
    /\ walk_lang = "none"
    /\ visited = {}
    /\ stack = <<>>
    /\ previous_graphs = <<>>
    /\ call = <<>>
    /\ ret = <<>>
    /\ output_files = <<>>
    /\ vulnerabilities = <<>>
    /\ vi = 0
    /\ tool_vulns = <<>>
    /\ group_result = <<>>

NextDetect ==
    \/ DetectStart
    \/ RuntimeFindEntry
    \/ RuntimeSpawn
    \/ RuntimeWrite
    \/ RuntimeRead
    \/ RuntimeTimeout
    \/ RuntimeClose
    \/ RuntimeParse
    \/ ChildWrite
    \/ ChildExit
    \/ RuntimeReturn
    \/ StaticDetect
    \/ DetectReturn

SpecDetect == InitDetect /\ [][NextDetect]_vars

\* RuntimeToolDetector.detect_tools called on its own
InitRuntime ==
    /\ project \in {p \in Projects : ~p.py_signal /\ ~p.ts_signal}
    /\ pc = "rt_entry"
    /\ use_runtime_detection = TRUE
    /\ loop_running = FALSE
    /\ tools = <<>>
    /\ entry_point = None
    /\ child = "none"
    /\ pipe = <<>>
    /\ written = <<>>
    /\ stdout_data = <<>>
    /\ runtime_tools = <<>>
    /\ di = 0
    /\ trace = [spawned |-> 0, static_calls |-> <<>>, rt_invoked |-> TRUE,
                rt_raised |-> FALSE, cause |-> "none"]
    /\ tool_graphs = <<>>
    /\ fs = <<>>
    /\ ti = 0
    /\ walk_lang = "none"
    /\ visited = {}
    /\ stack = <<>>
    /\ previous_graphs = <<>>
    /\ call = <<>>
    /\ ret = <<>>
    /\ output_files = <<>>
    /\ vulnerabilities = <<>>
    /\ vi = 0
    /\ tool_vulns = <<>>
    /\ group_result = <<>>

\* the steps of the detector's coroutine
DetectorStep ==
    \/ RuntimeFindEntry
    \/ RuntimeSpawn
    \/ RuntimeWrite
    \/ RuntimeRead
    \/ RuntimeTimeout
    \/ RuntimeClose
    \/ RuntimeParse

NextRuntime ==
    \/ DetectorStep
    \/ ChildWrite
    \/ ChildExit

SpecRuntime == InitRuntime /\ [][NextRuntime]_vars

\* the same call in the repositories listed in one order with one set of
\* declarations: the exchange with the server process reads neither
InitRoundTrip ==
    /\ InitRuntime
    /\ project.listing = SourceFiles
    /\ project.declared = Declared(<<"foo">>, <<"bar", "foo">>, <<"qux">>, <<>>)

SpecRoundTrip == InitRoundTrip /\ [][NextRuntime]_vars

\* the event loop keeps running the coroutine and its timers; the server
\* process is under no obligation
FairSpecRuntime == SpecRoundTrip /\ WF_vars(DetectorStep)

\* where a repository may be checked out: the root the other specifications
\* use, and roots under a directory with the name of a build or vendor
\* directory
RepoRoots ==
    {RepoPath, <<"/", "build", RepoName>>, <<"/", "home", "vendor", RepoName>>}

\* BaseLanguageDetector.detect_all_tools called on its own: call is the
\* detector, ret the loop's state (index of the next extension, the files
\* handed to detect_tools_in_file so far, the tools list)
InitExtract ==
    /\ project \in {p \in ProjectsAt(RepoRoots) :
                       /\ p.signature = {}
                       /\ p.pyproject = "absent" /\ p.package_json = "absent"
                       /\ ~p.py_signal /\ ~p.ts_signal}
    /\ call \in {[detector |-> d] : d \in {"python", "typescript"}}
    /\ ret = [ext |-> 1, visits |-> <<>>, tools |-> <<>>]
    /\ pc = "extract"
    /\ use_runtime_detection = FALSE
    /\ loop_running = FALSE
    /\ tools = <<>>
    /\ entry_point = None
    /\ child = "none"
    /\ pipe = <<>>
    /\ written = <<>>
    /\ stdout_data = <<>>
    /\ runtime_tools = <<>>
    /\ di = 0
    /\ trace = <<>>
    /\ tool_graphs = <<>>
    /\ fs = <<>>
    /\ ti = 0
    /\ walk_lang = "none"
    /\ visited = {}
    /\ stack = <<>>
    /\ previous_graphs = <<>>
    /\ output_files = <<>>
    /\ vulnerabilities = <<>>
    /\ vi = 0
    /\ tool_vulns = <<>>
    /\ group_result = <<>>

\* lines 70-77: the files of one extension
ExtractExtension ==
    /\ pc = "extract"
    /\ ret.ext <= Len(file_extensions(call.detector))
    /\ LET files == SelectSeq(project.listing,
                              LAMBDA f : Suffix(f) = file_extensions(call.detector)[ret.ext])
       IN  ret' = [ext |-> ret.ext + 1,
                   visits |-> ret.visits \o SelectSeq(files, LAMBDA f : ~SkipsFile(f)),
                   tools |-> ret.tools \o DetectInFiles(call.detector, files)]
    /\ UNCHANGED <<pc, call, output_files, tools, tool_graphs, graphVars, groupVars,
                   detectVars>>

\* line 79
ExtractReturn ==
    /\ pc = "extract"
    /\ ret.ext > Len(file_extensions(call.detector))
    /\ pc' = "extracted"
    /\ UNCHANGED <<utilVars, tools, tool_graphs, graphVars, groupVars, detectVars>>

NextExtract ==
    \/ ExtractExtension
    \/ ExtractReturn

SpecExtract == InitExtract /\ [][NextExtract]_vars

-----------------------------------------------------------------------------
(* ScanOrchestrator, select_scanners and get_worst_severity                *)

\* the state of the detection, closure and grouping code while a reporting
\* function runs
Idle ==
    /\ tools = <<>>
    /\ tool_graphs = <<>>
    /\ fs = <<>>
    /\ ti = 0
    /\ walk_lang = "none"
    /\ visited = {}
    /\ stack = <<>>
    /\ previous_graphs = <<>>
    /\ vulnerabilities = <<>>
    /\ vi = 0
    /\ tool_vulns = <<>>
    /\ group_result = <<>>
    /\ use_runtime_detection = FALSE
    /\ loop_running = FALSE
    /\ project = <<>>
    /\ entry_point = None
    /\ child = "none"
    /\ pipe = <<>>
    /\ written = <<>>
    /\ stdout_data = <<>>
    /\ runtime_tools = <<>>
    /\ di = 0
    /\ trace = <<>>

\* SCANNER_MAP (orchestrator.py lines 15-19): scanner name -> scanner class
SCANNER_MAP ==
    << <<"trivy", "TrivyScanner">>,
       <<"osv-scanner", "OSVScanner">>,
       <<"semgrep", "SemgrepScanner">> >>

\* the languages of extensions_map (detect_language.py lines 14-29)
LanguageNames ==
    {"python", "javascript", "typescript", "go", "java", "ruby", "rust", "php",
     "csharp", "cpp", "c", "swift", "kotlin", "scala"}

\* language_scanners (detect_language.py lines 50-62)
language_scanners ==
    [l \in {"python", "javascript", "typescript", "go", "java", "ruby", "rust",
            "php", "csharp", "cpp", "c"} |->
        CASE l = "javascript" -> {"trivy", "semgrep", "npm-audit", "yara"}
          [] l = "go"         -> {"trivy", "gosec", "yara"}
          [] l = "ruby"       -> {"trivy", "bundler-audit", "yara"}
          [] l = "rust"       -> {"trivy", "cargo-audit", "yara"}
          [] OTHER            -> {"trivy", "semgrep", "yara"}]

\* sorted(list(scanners)): the scanner names in string order
Sorted(scanners) ==
    SelectSeq(<<"bundler-audit", "cargo-audit", "gosec", "npm-audit",
                "osv-scanner", "semgrep", "trivy", "yara">>,
              LAMBDA n : n \in scanners)

\* select_scanners (detect_language.py lines 45-74)
select_scanners(languages) ==
    Sorted(UNION {language_scanners[l] : l \in languages \cap DOMAIN language_scanners}
           \cup {"trivy", "osv-scanner", "yara"})

\* the scanner_names argument of run_all_scanners: None, or a list
NoNames(languages) == [given |-> FALSE, names |-> <<>>, languages |-> languages]

\* scan_repository without scanners (cli.py lines 43-47): the scanners are
\* those select_scanners chooses for the languages detect_languages found
SelectScanners ==
    /\ pc = "select_scanners"
    /\ call' = [call EXCEPT !.given = TRUE, !.names = select_scanners(call.languages)]
    /\ pc' = "run_all_scanners"
    /\ UNCHANGED <<ret, output_files, tools, tool_graphs, graphVars, groupVars,
                   detectVars>>

\* run_all_scanners (orchestrator.py lines 40-56): the names that are keys of
\* SCANNER_MAP are run, the others are filtered out; the result is keyed by
\* the scanners that ran
RunAllScanners ==
    /\ pc = "run_all_scanners"
    /\ LET scanner_names == IF call.given THEN call.names ELSE DictKeys(SCANNER_MAP)
           valid == SelectSeq(scanner_names, LAMBDA n : DictHas(SCANNER_MAP, n))
       IN  ret' = [i \in 1..Len(valid) |-> <<valid[i], DictGet(SCANNER_MAP, valid[i])>>]
    /\ pc' = "scanners_done"
    /\ UNCHANGED <<call, output_files, tools, tool_graphs, graphVars, groupVars,
                   detectVars>>

\* the languages of a repository with at most this many languages are drawn
MaxLanguages == 2

\* either scan_repository selects the scanners, or run_all_scanners is
\* called with None
InitScanners ==
    /\ Idle
    /\ pc \in {"select_scanners", "run_all_scanners"}
    /\ call \in {NoNames(L) : L \in {M \in SUBSET LanguageNames : Cardinality(M) <= MaxLanguages}}
    /\ pc = "run_all_scanners" => call.languages = {}
    /\ ret = <<>>
    /\ output_files = <<>>

NextScanners == SelectScanners \/ RunAllScanners

SpecScanners == InitScanners /\ [][NextScanners]_vars

\* self.org_name of the ScanOrchestrator (orchestrator.py line 23)
OrgName == "org"

\* save_results (orchestrator.py lines 58-77): one file
\* <output_dir>/<org>/<repo>/violations.json, whose content maps "<org>/<repo>"
\* to the results of all scanners
SaveResults ==
    /\ pc = "save_results"
    /\ LET output_path == call.output_dir \o <<OrgName, RepoName>>
           formatted_results == << <<OrgName \o "/" \o RepoName, call.results>> >>
       IN  output_files' = DictSet(output_files,
                                   output_path \o <<"violations.json">>,
                                   formatted_results)
    /\ pc' = "saved"
    /\ UNCHANGED <<call, ret, tools, tool_graphs, graphVars, groupVars, detectVars>>

\* results maps: scanner names in any order, each with no or one finding
RECURSIVE ResultMaps(_)
ResultMaps(scanners) ==
    {<<>>} \cup
    UNION {{<<<<n, v>>>> \o r : v \in {<<>>, <<"finding">>}, r \in ResultMaps(scanners \ {n})} :
              n \in scanners}

InitSave ==
    /\ Idle
    /\ pc = "save_results"
    /\ call \in {[results |-> r, output_dir |-> <<"out">>] : r \in ResultMaps(KeySet(SCANNER_MAP))}
    /\ ret = <<>>
    /\ output_files = <<>>

SpecSave == InitSave /\ [][SaveResults]_vars

\* SEVERITY_ORDER with the priorities of two severities exchanged
SEVERITY_ORDER_exchanged ==
    [v \in {"CRITICAL", "HIGH", "MEDIUM", "LOW", "UNKNOWN", "WARNING", "NONE"} |->
        CASE v = "CRITICAL" -> 0
          [] v = "HIGH"     -> 1
          [] v = "MEDIUM"   -> 2
          [] v = "LOW"      -> 3
          [] v = "UNKNOWN"  -> 5
          [] v = "WARNING"  -> 4
          [] v = "NONE"     -> 6]

\* SEVERITY_ORDER (aggregate_results.py lines 10-18)
SEVERITY_ORDER ==
    [v \in {"CRITICAL", "HIGH", "MEDIUM", "LOW", "UNKNOWN", "WARNING", "NONE"} |->
        CASE v = "CRITICAL" -> 0
          [] v = "HIGH"     -> 1
          [] v = "MEDIUM"   -> 2
          [] v = "LOW"      -> 3
          [] v = "UNKNOWN"  -> 4
          [] v = "WARNING"  -> 5
          [] v = "NONE"     -> 6]

\* SEVERITY_ORDER.get(severity, 999)
Priority(severity) ==
    IF severity \in DOMAIN SEVERITY_ORDER THEN SEVERITY_ORDER[severity] ELSE 999

\* vuln.get('severity', 'UNKNOWN') of a finding; None stands for a finding
\* without the key
SeverityOf(vuln) == IF vuln = None THEN "UNKNOWN" ELSE vuln[1]

\* the loop of get_worst_severity (lines 44-50) over the rest of the list
RECURSIVE WorstFrom(_, _)
WorstFrom(worst_severity, rest) ==
    IF rest = <<>> THEN worst_severity
    ELSE IF Priority(SeverityOf(Head(rest))) < Priority(worst_severity)
         THEN WorstFrom(SeverityOf(Head(rest)), Tail(rest))
         ELSE WorstFrom(worst_severity, Tail(rest))

\* get_worst_severity (aggregate_results.py lines 36-52)
get_worst_severity(vulns) ==
    IF vulns = <<>> THEN "NONE" ELSE WorstFrom("NONE", vulns)

GetWorstSeverity ==
    /\ pc = "get_worst_severity"
    /\ ret' = get_worst_severity(call)
    /\ pc' = "severity_done"
    /\ UNCHANGED <<call, output_files, tools, tool_graphs, graphVars, groupVars,
                   detectVars>>

\* number of findings handed to get_worst_severity
MaxFindings == 3

\* VulnerabilitySeverity (models.py lines 8-16)
Severities == {"UNKNOWN", "NONE", "LOW", "MEDIUM", "HIGH", "CRITICAL", "WARNING"}

InitSeverity ==
    /\ Idle
    /\ pc = "get_worst_severity"
    /\ call \in BoundedSeq({<<v>> : v \in Severities} \cup {None}, MaxFindings)
    /\ ret = <<>>
    /\ output_files = <<>>

SpecSeverity == InitSeverity /\ [][GetWorstSeverity]_vars

-----------------------------------------------------------------------------
(* Properties of _group_by_tool                                            *)

\* the places <<bucket, position>> of a dict of lists where finding i stands
Occurrences(d, i) ==
    {pl \in (1..Len(d)) \X (1..Len(vulnerabilities)) :
        /\ pl[2] <= Len(d[pl[1]][2])
        /\ d[pl[1]][2][pl[2]] = i}

RECURSIVE SumSizes(_)
SumSizes(d) == IF d = <<>> THEN 0 ELSE Len(Head(d)[2]) + SumSizes(Tail(d))

\* the findings of the bucket of key k, the empty set when there is no such bucket
Bucket(d, k) ==
    IF DictHas(d, k) THEN {DictGet(d, k)[j] : j \in 1..Len(DictGet(d, k))} ELSE {}

\* C1: _group_by_tool never fails, and when it has returned every finding of
\* the list stands in exactly one place of exactly one output bucket, the
\* buckets have distinct keys, and their sizes add up to the number of findings.
TotalityOfAttribution ==
    /\ pc # "group_raised"
    /\ pc = "group_done" =>
          /\ \A i \in 1..Len(vulnerabilities) :
                Cardinality(Occurrences(group_result, i)) = 1
          /\ \A a, b \in 1..Len(group_result) :
                group_result[a][1] = group_result[b][1] => a = b
          /\ SumSizes(group_result) = Len(vulnerabilities)

\* two findings have been grouped into two buckets, one of them "unknown"
TotalityWitness ==
    /\ pc = "group_done"
    /\ Len(vulnerabilities) >= 2
    /\ Len(group_result) >= 2
    /\ DictHas(group_result, "unknown")
    /\ tools # <<>>

\* a finding with a location whose normalized path is named like a manifest
IsManifestFinding(i) ==
    /\ Truthy(vulnerabilities[i])
    /\ BaseName(NormalizePath(vulnerabilities[i])) \in dependency_files

\* C2: every finding handled so far whose normalized path has the base name
\* of a dependency manifest or lock file stands in the "dependencies" bucket,
\* and it is in the "dependencies" bucket of the returned dict, also when the
\* path belongs to the closure of a tool.
ManifestPriority ==
    /\ pc = "group_loop" =>
          \A i \in 1..(vi - 1) :
             IsManifestFinding(i) => i \in Bucket(tool_vulns, "dependencies")
    /\ pc = "group_done" =>
          \A i \in 1..Len(vulnerabilities) :
             IsManifestFinding(i) => i \in Bucket(group_result, "dependencies")

\* a manifest finding has been grouped whose path is the anchor of a tool and
\* a member of the closure stored under that tool's name
ManifestPriorityWitness ==
    /\ pc = "group_done"
    /\ \E i \in 1..Len(vulnerabilities), t \in 1..Len(tools) :
          /\ IsManifestFinding(i)
          /\ tools[t].file_path = NormalizePath(vulnerabilities[i])
          /\ NormalizePath(vulnerabilities[i]) \in DictGet(tool_graphs, tools[t].name)
          /\ i \in Bucket(group_result, "dependencies")

\* C3: every finding handled so far that has no file location (None, or the
\* empty string) stands in the "dependencies" bucket, and it is in the
\* "dependencies" bucket of the returned dict, whatever the tools and
\* closures are.
MissingLocationRule ==
    /\ pc = "group_loop" =>
          \A i \in 1..(vi - 1) :
             ~Truthy(vulnerabilities[i]) => i \in Bucket(tool_vulns, "dependencies")
    /\ pc = "group_done" =>
          \A i \in 1..Len(vulnerabilities) :
             ~Truthy(vulnerabilities[i]) => i \in Bucket(group_result, "dependencies")

\* a finding without location has been grouped next to one that went to a tool
MissingLocationWitness ==
    /\ pc = "group_done"
    /\ \E i, j \in 1..Len(vulnerabilities), t \in 1..Len(tools) :
          /\ vulnerabilities[i] = None
          /\ i \in Bucket(group_result, "dependencies")
          /\ j \in Bucket(group_result, tools[t].name)

\* the findings of every bucket of d are in the order of the input list
InInputOrder(d) ==
    \A b \in 1..Len(d) :
       \A i, j \in 1..Len(d[b][2]) : i < j => d[b][2][i] < d[b][2][j]

\* C13: in every bucket, while the findings are grouped and in the returned
\* dict, the findings stand in the relative order they have in the input list.
OrderPreservation ==
    /\ pc = "group_loop" => InInputOrder(tool_vulns)
    /\ pc = "group_done" => InInputOrder(group_result)

\* the first and the third finding share a bucket, the second is in another
OrderPreservationWitness ==
    /\ pc = "group_done"
    /\ Len(vulnerabilities) = 3
    /\ \E b, c \in 1..Len(group_result) :
          /\ group_result[b][2] = <<1, 3>>
          /\ group_result[c][2] = <<2>>

\* C14: every key of the returned dict is the name of a tool of the list or
\* one of "dependencies" and "unknown", and no key maps to an empty list.
OutputShape ==
    pc = "group_done" =>
       \A b \in 1..Len(group_result) :
          /\ \/ group_result[b][1] \in {"dependencies", "unknown"}
             \/ \E t \in 1..Len(tools) : tools[t].name = group_result[b][1]
          /\ group_result[b][2] # <<>>

\* a dict has been returned that lacks a tool without finding and the
\* empty "unknown" category, and holds another tool's bucket
OutputShapeWitness ==
    /\ pc = "group_done"
    /\ \E t, u \in 1..Len(tools) :
          /\ ~DictHas(group_result, tools[t].name)
          /\ DictHas(group_result, tools[u].name)
    /\ ~DictHas(group_result, "unknown")
    /\ DictHas(group_result, "dependencies")

\* a location that is an absolute path outside the repository
OutsideRepo(file_location) ==
    IsAbsolute(file_location) /\ ~IsUnder(file_location, RepoPath)

\* C15: every finding whose location is an absolute path that is not under
\* the repository root and whose base name is no manifest name is in the
\* "dependencies" bucket of the returned dict.
NormalizationFailure ==
    pc = "group_done" =>
       \A i \in 1..Len(vulnerabilities) :
          (/\ OutsideRepo(vulnerabilities[i])
           /\ BaseName(vulnerabilities[i]) \notin dependency_files)
             => i \in Bucket(group_result, "dependencies")

\* the path text of an outside location with every "<repo_path>/" removed
Replaced(file_location) == ReplaceRepoPrefix(<<"/">>, Tail(file_location))

\* C15 as amended: a finding whose location is an absolute path that is not
\* under the repository root keeps its location; with "<repo_path>/" removed
\* from the path text it is routed like any other path: to "dependencies"
\* if the base name is a manifest name, to the first tool whose closure holds
\* the text, and otherwise to "unknown".
NormalizationFailureAmended ==
    pc = "group_done" =>
       \A i \in 1..Len(vulnerabilities) :
          OutsideRepo(vulnerabilities[i]) =>
             i \in Bucket(group_result,
                          IF BaseName(Replaced(vulnerabilities[i])) \in dependency_files
                          THEN "dependencies"
                          ELSE IF FirstOwner(tool_graphs, Replaced(vulnerabilities[i])) # None
                               THEN FirstOwner(tool_graphs, Replaced(vulnerabilities[i]))[1]
                               ELSE "unknown")

\* findings on /out/x.py and on /out/setup.py have been grouped, the first
\* under "unknown" and the second under "dependencies"
NormalizationFailureWitness ==
    /\ pc = "group_done"
    /\ \E i, j \in 1..Len(vulnerabilities) :
          /\ vulnerabilities[i] = <<"/", "out", "x.py">>
          /\ i \in Bucket(group_result, "unknown")
          /\ vulnerabilities[j] = <<"/", "out", "setup.py">>
          /\ j \in Bucket(group_result, "dependencies")
    /\ tools # <<>>

-----------------------------------------------------------------------------
(* Properties of CallGraphBuilder                                          *)

\* C4: when build_graphs has returned, the set stored under the name of
\* every tool of the list contains that tool's file_path.
SelfMembership ==
    pc = "built" =>
       \A i \in 1..Len(tools) :
          /\ DictHas(tool_graphs, tools[i].name)
          /\ tools[i].file_path \in DictGet(tool_graphs, tools[i].name)

\* file A has an import statement that resolves to file B
Imports(A, B) ==
    /\ A \in DOMAIN fs
    /\ fs[A].ok
    /\ \E k \in 1..Len(fs[A].imports) :
          \E r \in 1..Len(ResolvePythonImport(fs[A].imports[k], Parent(RepoPath \o A))) :
             ResolvePythonImport(fs[A].imports[k], Parent(RepoPath \o A))[r] = B

\* tools i and j are Python tools anchored at two files that import each other
MutualAnchors(i, j) ==
    /\ tools[i].language = "python"
    /\ tools[j].language = "python"
    /\ tools[i].file_path # tools[j].file_path
    /\ Imports(tools[i].file_path, tools[j].file_path)
    /\ Imports(tools[j].file_path, tools[i].file_path)

\* when build_graphs has returned, the closures of two tools anchored at
\* mutually importing files both contain both files
MutualClosures ==
    \A i, j \in 1..Len(tools) :
       MutualAnchors(i, j) =>
          {tools[i].file_path, tools[j].file_path}
             \subseteq DictGet(tool_graphs, tools[i].name)
                       \cap DictGet(tool_graphs, tools[j].name)

-----------------------------------------------------------------------------
(* Properties of ToolDetector.detect_tools and RuntimeToolDetector         *)

\* what the static detectors find: the Python detector's tools, then the
\* TypeScript detector's
StaticTools == DetectAllTools("python", 1) \o DetectAllTools("typescript", 1)

\* some detector's project signal matches
ProjectSignal == project.py_signal \/ project.ts_signal

\* C6: once runtime discovery has returned at least one tool, no static
\* detector is invoked in that call, and the list detect_tools returns is the
\* runtime list.
StrategyShortCircuit ==
    runtime_tools # <<>> =>
       /\ trace.static_calls = <<>>
       /\ pc \in {"rt_done", "detected"}
       /\ pc = "detected" => tools = runtime_tools

\* detect_tools has returned a runtime list where the static detectors would
\* have found tools as well
StrategyShortCircuitWitness ==
    /\ pc = "detected"
    /\ runtime_tools # <<>>
    /\ StaticTools # <<>>
    /\ tools = runtime_tools

\* the result of the static tiers: the static tools, or the placeholder tier
StaticResult ==
    IF StaticTools # <<>> THEN StaticTools
    ELSE IF ProjectSignal THEN <<PlaceholderTool>> ELSE <<>>

\* C7: when detect_tools is called with runtime detection enabled while an
\* event loop is running, the runtime detector is not run, no child process
\* is spawned, and the result is the one of static detection.
ReentrancyRefusal ==
    (use_runtime_detection /\ loop_running) =>
       /\ ~trace.rt_invoked
       /\ trace.spawned = 0
       /\ child = "none"
       /\ pc \in {"detect", "static", "detected"}
       /\ pc = "detected" =>
             /\ trace.static_calls = <<"python", "typescript">>
             /\ tools = StaticResult

\* detect_tools has returned static tools under a running loop, in a
\* repository where the runtime detector would have found an entry point
ReentrancyRefusalWitness ==
    /\ pc = "detected"
    /\ use_runtime_detection
    /\ loop_running
    /\ FindEntryPoint(1) # None
    /\ GetServerCommand(FindEntryPoint(1)) # <<>>
    /\ tools # <<>>
    /\ tools = StaticTools

\* the child wrote a line with a tools member that is no list, or a list
\* with an element that is no object
WroteMalformedTools ==
    \E k \in 1..Len(written) :
       /\ written[k].kind = "tools"
       /\ \/ ~written[k].tools.list
          \/ \E e \in 1..Len(written[k].tools.elems) :
                ~written[k].tools.elems[e].object

\* C8: RuntimeToolDetector.detect_tools never propagates an exception, and
\* it has returned the empty list whenever the spawn failed, the read timed
\* out, no output line carried a tools array, or the tools value was no list
\* or held an element that is no object.
RuntimeNeverRaises ==
    /\ ~trace.rt_raised
    /\ trace.cause \in {"spawn_error", "timeout", "no_tools", "malformed"} =>
          /\ runtime_tools = <<>>
          /\ pc \in {"rt_done", "static", "detected"}
    /\ (pc = "rt_done" /\ stdout_data # <<>> /\ runtime_tools # <<>>) =>
          \E k \in 1..Len(stdout_data) :
             /\ stdout_data[k].kind = "tools"
             /\ stdout_data[k].tools.list
             /\ \A e \in 1..Len(stdout_data[k].tools.elems) :
                   stdout_data[k].tools.elems[e].object

\* the runtime detector has returned after the conversion of a malformed
\* tools array raised
RuntimeNeverRaisesWitness ==
    /\ pc = "rt_done"
    /\ trace.cause = "malformed"
    /\ WroteMalformedTools
    /\ runtime_tools = <<>>

\* position of a file in the repository listing
ListingIndex(file_path) ==
    CHOOSE i \in 1..Len(project.listing) : project.listing[i] = file_path

\* the tools of a list are in file-visit order: Python tools before
\* TypeScript tools, and the tools one detector found under one extension in
\* the order the files are listed and, within a file, by line
InVisitOrder(ts) ==
    \A i, j \in 1..Len(ts) :
       i < j =>
          /\ ~(ts[i].language = "typescript" /\ ts[j].language = "python")
          /\ (/\ ts[i].language = ts[j].language
              /\ Suffix(ts[i].file_path) = Suffix(ts[j].file_path)) =>
                \/ ListingIndex(ts[i].file_path) < ListingIndex(ts[j].file_path)
                \/ /\ ts[i].file_path = ts[j].file_path
                   /\ ts[i].line_number < ts[j].line_number

\* C9: when runtime detection is disabled, skipped, empty or failed, every
\* registered static detector has run, in registration order, by the time
\* the static loop ends; the list is then the Python detector's tools
\* followed by the TypeScript detector's, each in file-visit order, and it is
\* the list detect_tools returns unless it is empty (the placeholder tier
\* then decides).
StaticFallback ==
    /\ (pc = "static" /\ di > Len(DETECTOR_CLASSES)) =>
          /\ trace.static_calls = <<"python", "typescript">>
          /\ tools = StaticTools
          /\ InVisitOrder(tools)
    /\ (pc = "detected" /\ runtime_tools = <<>>) =>
          /\ trace.static_calls = <<"python", "typescript">>
          /\ StaticTools # <<>> => tools = StaticTools /\ InVisitOrder(tools)

\* detect_tools has returned tools of both detectors after the runtime
\* detector ran and came back empty
StaticFallbackWitness ==
    /\ pc = "detected"
    /\ trace.rt_invoked
    /\ runtime_tools = <<>>
    /\ \E i, j \in 1..Len(tools) :
          tools[i].language = "python" /\ tools[j].language = "typescript"
    /\ tools = StaticTools

\* C10: when neither runtime nor static detection yields a tool, detect_tools
\* returns exactly the placeholder tool (named "unknown", anchored at the
\* repository root) if some detector's project signal matches and the empty
\* list otherwise; when a tool was detected the result holds no placeholder.
PlaceholderTier ==
    pc = "detected" =>
       IF runtime_tools = <<>> /\ StaticTools = <<>>
       THEN tools = IF ProjectSignal
                    THEN <<[name |-> "unknown", file_path |-> RepoPath,
                            line_number |-> 0, language |-> "unknown"]>>
                    ELSE <<>>
       ELSE /\ tools # <<>>
            /\ \A i \in 1..Len(tools) :
                  ~(tools[i].name = "unknown" /\ tools[i].file_path = RepoPath)

\* detect_tools has returned the placeholder after a runtime attempt that
\* found nothing
PlaceholderTierWitness ==
    /\ pc = "detected"
    /\ trace.rt_invoked
    /\ tools = <<PlaceholderTool>>
    /\ project.ts_signal
    /\ ~project.py_signal

-----------------------------------------------------------------------------
(* Properties of the scan: build_graphs followed by _group_by_tool         *)

\* the scenario: tool foo anchored at server.py, server.py importing
\* helper.py, helper.py importing nothing, requirements.txt present, and the
\* findings on helper.py, on requirements.txt and without location
IsScenario ==
    /\ tools = <<Tool("foo", <<"server.py">>, "python")>>
    /\ fs[<<"server.py">>] = [ok |-> TRUE, imports |-> <<<<"helper">>>>]
    /\ fs[<<"helper.py">>] = [ok |-> TRUE, imports |-> <<>>]
    /\ <<"requirements.txt">> \in DOMAIN fs
    /\ vulnerabilities = <<<<"helper.py">>, <<"requirements.txt">>, None>>

\* C11: in the scenario, _group_by_tool returns the first finding under foo
\* and the second and third, in that order, under "dependencies", and no
\* other bucket.
EndToEndScenario ==
    (IsScenario /\ pc = "group_done") =>
       group_result = << <<"foo", <<1>>>>, <<"dependencies", <<2, 3>>>> >>

\* the scan of the scenario has returned
EndToEndScenarioWitness ==
    /\ IsScenario
    /\ pc = "group_done"
    /\ DictGet(tool_graphs, "foo") = {<<"server.py">>, <<"helper.py">>}

-----------------------------------------------------------------------------
(* Properties of repeated closure construction                             *)

PythonClosureDeterminism ==
    (/\ pc = "built"
     /\ previous_graphs # <<>>
     /\ \A i \in 1..Len(tools) : tools[i].language \notin {"typescript", "javascript"})
       => tool_graphs = previous_graphs[1]

-----------------------------------------------------------------------------
(* Closure and reachability                                                *)

\* the paths to which the import statements of file A resolve, none when A
\* cannot be read
ResolvedFrom(A) ==
    IF A \in DOMAIN fs /\ fs[A].ok
    THEN UNION {LET resolved == ResolvePythonImport(fs[A].imports[k],
                                                    Parent(RepoPath \o A))
                IN  {resolved[r] : r \in 1..Len(resolved)} :
                   k \in 1..Len(fs[A].imports)}
    ELSE {}

\* the paths to which the import statements of the readable files of S resolve
ImportedBy(S) == UNION {ResolvedFrom(A) : A \in S} \cap DOMAIN fs

\* the least set that contains S and is closed under ImportedBy
RECURSIVE Reachable(_)
Reachable(S) ==
    LET next == S \cup ImportedBy(S)
    IN  IF next = S THEN S ELSE Reachable(next)

\* C19: whenever _build_tool_graph has returned for a Python tool whose
\* anchor file exists, the closure stored for it is exactly the least set
\* that contains the anchor and every path an import statement of a readable
\* member resolves to.
ClosureEqualsReachability ==
    (pc \in {"build", "built"} /\ ti > 1) =>
       LET tool == tools[ti - 1]
       IN  (tool.language = "python" /\ Exists(Join(RepoPath, tool.file_path))) =>
              DictGet(tool_graphs, tool.name) = Reachable({tool.file_path})

\* build_graphs has returned for a diamond: a.py imports b and c, each of
\* which imports d, and the closure holds the four files
ClosureEqualsReachabilityWitness ==
    /\ pc = "built"
    /\ fs[<<"a.py">>].imports = << <<"b">>, <<"c">> >>
    /\ fs[<<"b.py">>].imports = << <<"d">> >>
    /\ fs[<<"c.py">>].imports = << <<"d">> >>
    /\ fs[<<"d.py">>].ok
    /\ DictGet(tool_graphs, "foo") = {<<"a.py">>, <<"b.py">>, <<"c.py">>, <<"d.py">>}

-----------------------------------------------------------------------------
(* Tie-break between closures                                              *)

\* the names of the tools whose stored closure holds the normalized path of
\* finding i
ClosuresHolding(i) ==
    {n \in KeySet(tool_graphs) : NormalizePath(vulnerabilities[i]) \in DictGet(tool_graphs, n)}

\* finding i has a location whose normalized path is not named like a
\* manifest and is a member of the closures of several tools
IsTie(i) ==
    /\ Truthy(vulnerabilities[i])
    /\ ~IsManifestFinding(i)
    /\ Cardinality(ClosuresHolding(i)) >= 2

\* C20: when the findings have been grouped, a finding whose non-manifest
\* normalized path is a member of several closures stands in the bucket of
\* the tool, among those whose closure holds the path, that comes first in
\* the tool list, and in no other bucket.
TieBreak ==
    pc = "group_done" =>
       \A i \in 1..Len(vulnerabilities) :
          IsTie(i) =>
             \E k \in 1..Len(tools) :
                /\ tools[k].name \in ClosuresHolding(i)
                /\ \A j \in 1..(k - 1) : tools[j].name \notin ClosuresHolding(i)
                /\ i \in Bucket(group_result, tools[k].name)
                /\ \A b \in KeySet(group_result) \ {tools[k].name} :
                      i \notin Bucket(group_result, b)

\* a finding on helper.py has been grouped under foo, the first tool of the
\* list, while the closures of foo and of bar both hold helper.py
TieBreakWitness ==
    /\ pc = "group_done"
    /\ Len(tools) = 2
    /\ tools[1].name = "foo"
    /\ tools[2].name = "bar"
    /\ \E i \in 1..Len(vulnerabilities) :
          /\ IsTie(i)
          /\ ClosuresHolding(i) = {"foo", "bar"}
          /\ i \in Bucket(group_result, "foo")

-----------------------------------------------------------------------------
(* Import resolution in the closure                                        *)

\* the tool whose closure was stored last, and that closure
LastTool == tools[ti - 1]

LastClosure == DictGet(tool_graphs, LastTool.name)

\* _build_tool_graph has just returned for a tool whose anchor exists and
\* whose language has a builder
ToolWalked ==
    /\ pc \in {"build", "built"}
    /\ ti > 1
    /\ Exists(Join(RepoPath, LastTool.file_path))
    /\ WalkerOf(LastTool.language) # "none"

\* the paths the resolver returns for the k-th import statement of file A
\* when it is given that statement alone
ResolvedAlone(lang, A, k) ==
    LET imp == fs[A].imports[k]
        dir == Parent(RepoPath \o A)
    IN  IF lang = "python"
        THEN {ResolvePythonImport(imp, dir)[r] : r \in 1..Len(ResolvePythonImport(imp, dir))}
        ELSE IF ~imp.relative THEN {}
        ELSE {ResolveJavascriptImport(imp.target, dir).paths[r] :
                 r \in 1..Len(ResolveJavascriptImport(imp.target, dir).paths)}

\* C21: when _build_tool_graph has returned, every member of the closure
\* other than the anchor is a file of the repository (an unresolvable
\* specifier added nothing), and for every readable member every import
\* statement that resolves to a file when taken alone has that file in the
\* closure, whatever the other import statements of the member resolve to.
ImportIsolation ==
    ToolWalked =>
       /\ LastClosure \ {LastTool.file_path} \subseteq DOMAIN fs
       /\ \A A \in LastClosure \cap DOMAIN fs :
             fs[A].ok =>
                \A k \in 1..Len(fs[A].imports) :
                   ResolvedAlone(WalkerOf(LastTool.language), A, k) \subseteq LastClosure

\* the candidates of a relative specifier in probing order: the specifier
\* with each suffix, the specifier itself, then the index files
ProbeCandidates(resolved) ==
    <<WithExt(resolved, ".ts"), WithExt(resolved, ".tsx"), WithExt(resolved, ".js"),
      WithExt(resolved, ".jsx"), resolved,
      resolved \o <<"index.ts">>, resolved \o <<"index.tsx">>,
      resolved \o <<"index.js">>, resolved \o <<"index.jsx">>>>

\* the candidates that are files of the repository
ExistingCandidates(resolved) ==
    SelectSeq(ProbeCandidates(resolved),
              LAMBDA c : IsUnder(c, RepoPath) /\ RelativeTo(c, RepoPath) \in DOMAIN fs)

\* C22: when _build_tool_graph has returned for a JavaScript/TypeScript tool
\* whose anchor can be read, every relative specifier of the anchor that has
\* an existing candidate has its first existing candidate in the closure.
ExtensionProbing ==
    (ToolWalked /\ WalkerOf(LastTool.language) = "javascript" /\ fs[LastTool.file_path].ok) =>
       \A k \in 1..Len(fs[LastTool.file_path].imports) :
          LET imp == fs[LastTool.file_path].imports[k]
              found == ExistingCandidates(Parent(RepoPath \o LastTool.file_path) \o imp.target)
          IN  (imp.relative /\ found # <<>>) =>
                 RelativeTo(found[1], RepoPath) \in LastClosure

-----------------------------------------------------------------------------
(* Properties of the round trip with the server process                    *)

\* the read of standard output is pending and the child has written nothing
SilentServer == pc = "rt_read" /\ pipe = <<>> /\ written = <<>> /\ child = "running"

\* the timeout handler of _query_tools has run
TimedOut == trace.cause = "timeout"

\* C23: a detector that waits for a child that has written nothing
\* eventually returns, and when the timeout has expired the child was ended
\* through a grace period (terminated, waited for, killed only after the
\* grace period), and the result is empty.
TimeoutHandling ==
    /\ [](TimedOut => (pc = "rt_done" /\ runtime_tools = <<>> /\ child = "reaped"))
    /\ (SilentServer ~> pc = "rt_done")

\* C23, amended: a detector that waits for a child that has written nothing
\* eventually returns, and when the timeout has expired the child was killed
\* at once and waited for, and the result is empty.
TimeoutHandlingAmended ==
    /\ [](TimedOut => (pc = "rt_done" /\ runtime_tools = <<>> /\ child = "killed"))
    /\ (SilentServer ~> pc = "rt_done")

\* the timeout expired on a child that never wrote and the detector returned
TimeoutHandlingWitness ==
    /\ TimedOut
    /\ pc = "rt_done"
    /\ written = <<>>
    /\ child = "killed"
    /\ runtime_tools = <<>>

\* the lines of the output read that are tools/list responses (id 2) with a
\* tools array
ToolsLines ==
    {i \in 1..Len(stdout_data) : stdout_data[i].kind = "tools" /\ stdout_data[i].tools.list}

\* the names _parse_tools_response gives the elements of a tools array
NamesOf(elems) ==
    [j \in 1..Len(elems) |-> IF elems[j].name = None THEN "unknown" ELSE elems[j].name[1]]

\* C24: when the detector has returned after reading output in which exactly
\* one line is a tools/list response with a non-empty array of tool objects,
\* the tools returned are those of that line, whatever the other lines are
\* (the initialize response, text that is not JSON, JSON that is no object).
ResponseCorrelation ==
    (/\ pc = "rt_done"
     /\ Cardinality(ToolsLines) = 1
     /\ \A i \in (1..Len(stdout_data)) \ ToolsLines :
           stdout_data[i].kind \in {"init", "garbage", "nonobject"}) =>
       LET elems == stdout_data[CHOOSE i \in ToolsLines : TRUE].tools.elems
       IN  (elems # <<>> /\ \A j \in 1..Len(elems) : elems[j].object) =>
              [j \in 1..Len(runtime_tools) |-> runtime_tools[j].name] = NamesOf(elems)

\* the manifest of the entry point's language declares a script or command
DeclaresCommand(entry) ==
    IF Suffix(entry) = ".py" THEN project.pyproject = "scripts"
    ELSE project.package_json \in {"start", "bin"}

\* the commands that run a manifest-declared script, and those that run the
\* entry-point file with an interpreter
ManifestCommands ==
    {<<"sh", "-c", "uv pip install -e . && uv run <script>">>, <<"npm", "start">>,
     <<"node", "<bin>">>}

InterpreterCommands ==
    {<<"uv", "run", "python", "<entry>">>, <<"python", "<entry>">>,
     <<"npx", "tsx", "<entry>">>, <<"node", "<entry>">>}

\* C25: once _find_entry_point has accepted an entry point, _get_server_command
\* yields a command for it, the manifest-declared one when the manifest
\* declares one and otherwise the interpreter on the entry-point file, and
\* detect_tools does not give up for want of a command.
CommandDetermination ==
    entry_point # None =>
       /\ GetServerCommand(entry_point) # <<>>
       /\ trace.cause # "no_command"
       /\ IF DeclaresCommand(entry_point)
          THEN GetServerCommand(entry_point) \in ManifestCommands
          ELSE GetServerCommand(entry_point) \in InterpreterCommands

\* the files of the entry point's directory, in the order of the listing
InDirectoryOf(entry) == SelectSeq(RepoListing, LAMBDA f : Parent(f) = Parent(entry))

\* the file and line a tool is anchored to when the files of search_files
\* are searched in this order
AnchorAmong(search_files, name, entry) ==
    LET found == SelectSeq(search_files, LAMBDA f : DefLine(f, name) > 0)
    IN  IF found # <<>> THEN <<found[1], DefLine(found[1], name)>> ELSE <<entry, 0>>

\* the detector has returned tools of the server
ToolsReturned == pc = "rt_done" /\ runtime_tools # <<>>

\* C26: every tool the detector returns is anchored to the first file, among
\* the entry point and the files of the entry point's directory, that has a
\* definition line for its name, at that line, and to the entry point at line
\* 0 when there is none, wherever the entry point lies.
AnchorResolution ==
    ToolsReturned =>
       \A i \in 1..Len(runtime_tools) :
          <<runtime_tools[i].file_path, runtime_tools[i].line_number>>
             = AnchorAmong(<<entry_point>> \o InDirectoryOf(entry_point),
                           runtime_tools[i].name, entry_point)

\* the files _find_tool_in_source adds to the entry point: none when the
\* entry point lies directly in the repository root, and otherwise the files
\* of its directory that have its suffix
SearchedWith(entry) ==
    IF Len(entry) = 1 THEN <<>>
    ELSE SelectSeq(InDirectoryOf(entry), LAMBDA f : Suffix(f) = Suffix(entry))

\* C26, amended: the files searched besides the entry point are those of its
\* directory that have its suffix, and none when the entry point lies
\* directly in the repository root.
AnchorResolutionAmended ==
    ToolsReturned =>
       \A i \in 1..Len(runtime_tools) :
          <<runtime_tools[i].file_path, runtime_tools[i].line_number>>
             = AnchorAmong(<<entry_point>> \o SearchedWith(entry_point),
                           runtime_tools[i].name, entry_point)

\* the server started from src/server.py returned the tools bar and foo; both
\* are anchored in src/tools.py, at the lines of their definitions
AnchorResolutionWitness ==
    /\ ToolsReturned
    /\ entry_point = <<"src", "server.py">>
    /\ Len(runtime_tools) = 2
    /\ <<runtime_tools[1].name, runtime_tools[1].file_path, runtime_tools[1].line_number>>
          = <<"bar", <<"src", "tools.py">>, 1>>
    /\ <<runtime_tools[2].name, runtime_tools[2].file_path, runtime_tools[2].line_number>>
          = <<"foo", <<"src", "tools.py">>, 2>>

\* C27: when the detector has returned after the child process was spawned,
\* the child has exited by itself or has been waited for (after the grace
\* period or after a kill), whatever the return path.
NoOrphanedChild ==
    (pc = "rt_done" /\ trace.spawned > 0) => child \in {"exited", "reaped", "killed"}

\* the server wrote the initialize response and then a tools/list response
\* with a non-empty array of named tools, and the requests were written and
\* no timeout expired
WellFormedRoundTrip ==
    /\ Len(written) = 2
    /\ written[1] = InitResponse
    /\ written[2].kind = "tools"
    /\ written[2].tools.list
    /\ written[2].tools.elems # <<>>
    /\ \A j \in 1..Len(written[2].tools.elems) :
          written[2].tools.elems[j].object /\ written[2].tools.elems[j].name # None
    /\ trace.cause \notin {"write_error", "timeout"}

\* C28: when the detector has returned and the server wrote a well-formed
\* initialize response and then a well-formed tools/list response, the tools
\* returned are those of the tools/list response, at whatever points between
\* the two writes the detector read the output.
InterleavingIndependence ==
    (pc = "rt_done" /\ WellFormedRoundTrip) =>
       [j \in 1..Len(runtime_tools) |-> runtime_tools[j].name]
          = NamesOf(written[2].tools.elems)

-----------------------------------------------------------------------------
(* Properties of the static extraction                                     *)

\* the files of the repository with an extension of the detector and, in
\* their path relative to the repository root, no excluded directory
Extractable(detector) ==
    {project.listing[k] : k \in
        {j \in 1..Len(project.listing) :
            /\ \E e \in 1..Len(file_extensions(detector)) :
                  Suffix(project.listing[j]) = file_extensions(detector)[e]
            /\ \A c \in 1..Len(project.listing[j]) :
                  project.listing[j][c] \notin skipped_directories}}

\* C29: detect_all_tools hands to detect_tools_in_file exactly the files
\* with a registered extension whose path relative to the repository root
\* has no excluded directory name as a component, each of them once,
\* wherever the repository root is located, also under a directory named
\* like an excluded one.
StaticExtractionCoverage ==
    pc = "extracted" =>
       /\ {ret.visits[i] : i \in 1..Len(ret.visits)} = Extractable(call.detector)
       /\ \A i, j \in 1..Len(ret.visits) : ret.visits[i] = ret.visits[j] => i = j
       /\ ret.tools = DetectAllTools(call.detector, 1)

-----------------------------------------------------------------------------
(* Properties of the two categories                                        *)

\* the findings of a bucket of the output, none for a missing key
BucketFindings(k) ==
    IF DictHas(group_result, k)
    THEN {DictGet(group_result, k)[i] : i \in 1..Len(DictGet(group_result, k))}
    ELSE {}

\* the finding has a manifest base name or no file location
ManifestOrAbsent(i) ==
    \/ ~Truthy(vulnerabilities[i])
    \/ IsDependencyFile(BaseName(NormalizePath(vulnerabilities[i])))

\* the normalized path of the finding is in the closure of some tool
InSomeClosure(i) ==
    \E g \in 1..Len(tool_graphs) :
       NormalizePath(vulnerabilities[i]) \in tool_graphs[g][2]

\* C30: in the output of _group_by_tool the unknown bucket holds exactly the
\* findings with a file location, no manifest base name and a normalized
\* path in no tool's closure, and the dependencies bucket exactly the
\* findings with a manifest base name or no file location, also when a
\* detected tool is itself named unknown or dependencies.
FixedBucketMeaning ==
    pc = "group_done" =>
       /\ BucketFindings("unknown") =
             {i \in 1..Len(vulnerabilities) :
                 ~ManifestOrAbsent(i) /\ ~InSomeClosure(i)}
       /\ BucketFindings("dependencies") =
             {i \in 1..Len(vulnerabilities) : ManifestOrAbsent(i)}

-----------------------------------------------------------------------------
(* Properties of the scanner registry and the reporting functions          *)

\* C16: SCANNER_MAP registers trivy, osv-scanner, semgrep and yara, yara as
\* YaraScanner, and when run_all_scanners has returned for the names
\* select_scanners chose, every name select_scanners always chooses (trivy,
\* osv-scanner, yara) has been run.
ScannerRegistry ==
    /\ {"trivy", "osv-scanner", "semgrep", "yara"} \subseteq KeySet(SCANNER_MAP)
    /\ DictHas(SCANNER_MAP, "yara") => DictGet(SCANNER_MAP, "yara") = "YaraScanner"
    /\ pc = "scanners_done" /\ call.given =>
          \A n \in {"trivy", "osv-scanner", "yara"} : DictHas(ret, n)

\* C17: when save_results has returned, the output directory holds for every
\* scanner key of the results a file <scanner>-violations.json whose content
\* has the key "<org>/<repo>", under which the scanner's name is a key.
SaveResultsPerScanner ==
    pc = "saved" =>
       \A k \in KeySet(call.results) :
          LET file == call.output_dir \o <<k \o "-violations.json">>
          IN  /\ DictHas(output_files, file)
              /\ DictHas(DictGet(output_files, file), OrgName \o "/" \o RepoName)
              /\ DictHas(DictGet(DictGet(output_files, file), OrgName \o "/" \o RepoName), k)

\* CRITICAL > HIGH > MEDIUM > LOW > UNKNOWN > WARNING > NONE
SeverityRanking == <<"CRITICAL", "HIGH", "MEDIUM", "LOW", "UNKNOWN", "WARNING", "NONE">>

Rank(severity) == CHOOSE i \in 1..Len(SeverityRanking) : SeverityRanking[i] = severity

\* the severities of the findings of a list; a finding without one counts
\* as UNKNOWN
SeveritiesIn(vulns) ==
    {IF vulns[i] = None THEN "UNKNOWN" ELSE vulns[i][1] : i \in 1..Len(vulns)}

\* C18: get_worst_severity returns NONE for the empty list, and otherwise a
\* severity of one of the findings that no severity of another finding
\* outranks in CRITICAL > HIGH > MEDIUM > LOW > UNKNOWN > WARNING > NONE; this
\* fixes the result by the set of severities, whatever their order in the list.
WorstSeverity ==
    pc = "severity_done" =>
       IF call = <<>> THEN ret = "NONE"
       ELSE /\ ret \in SeveritiesIn(call)
            /\ \A v \in SeveritiesIn(call) : Rank(ret) <= Rank(v)

\* the worst severity of three findings stood last in the list
WorstSeverityWitness ==
    /\ pc = "severity_done"
    /\ Len(call) = 3
    /\ ret = "WARNING"
    /\ call[1] = <<"NONE">>
    /\ call[3] = <<"WARNING">>

=============================================================================
